---- MODULE Spec2Model ----
(***************************************************************************)
(* Model of the simulated exchange adapters of the trading bot:            *)
(*   agent/exchange_adapters/mock_exchange_adapter.py                      *)
(*   agent/exchange_adapters/mock_exchange_adapter_with_real_prices.py     *)
(*                                                                         *)
(* Numbers.  The code computes in floats; the model computes the same      *)
(* products exactly, in integers:                                          *)
(*   - a quantity is a whole number of base-asset units;                   *)
(*   - a price is a whole number of price units, PriceUnit of them making  *)
(*     1.0 (so the +-0.025% variation of _get_sim_price and the slippage   *)
(*     of a market order are exact on reference prices that are whole      *)
(*     numbers);                                                           *)
(*   - a cash amount is a whole number of money units, RateDen of them     *)
(*     making one price unit (so the commission is exact).                 *)
(* An optional value is <<>> (None) or <<v>>.                              *)
(***************************************************************************)
EXTENDS Integers, Sequences, FiniteSets, TLC

\* ------------------------------------------------------------------ bounds
MaxOrders == 2      \* create_order calls in one run
MaxQty == 2         \* order quantities are 1..MaxQty
MaxCycles == 2      \* trading cycles in one run of the agent
MaxSma == 2         \* moving averages are 0..MaxSma
MaxArticles == 2    \* recent relevant articles of one symbol in one cycle
MaxWindow == 2      \* short_window and long_window are 1..MaxWindow

\* --------------------------------------------------------- configuration
\* config "slippage_factor" and "commission_rate" are SlippageNum/RateDen
\* and CommissionNum/RateDen.  The adapters default both to 0.001; the
\* configuration modelled here sets both to 0.01, which keeps every amount
\* inside TLC's 32-bit integers.
RateDen == 100
SlippageNum == 1
CommissionNum == 1
\* the variation of _get_sim_price is (random() - 0.5) * 0.0005, i.e. a
\* fraction n / NoiseDen with -2 <= n < 2 when NoiseDen = 8000.
NoiseDen == 8000
\* the initial portfolio: cash_balance {"USDT": InitialCapital}, in whole
\* currency units (the configured initial_capital; 10000.0 by default)
InitialCapital == 2

PriceUnit == NoiseDen * RateDen          \* price units in 1.0
MoneyUnit == PriceUnit * RateDen         \* money units in 1.0

None == <<>>
Some(v) == <<v>>
IsSome(o) == o # <<>>
Val(o) == o[1]

Currencies == {"BTC", "USDT"}
\* symbol.split('/') : a symbol is its (base, quote) pair.  "USDT/USDT" is
\* the pair the code singles out with quote_currency != base_currency.
Symbols == { [base |-> "BTC", quote |-> "USDT"], [base |-> "USDT", quote |-> "USDT"] }

Adapters == {"MockExchangeAdapter", "MockExchangeAdapterWithRealtimeData"}

\* random.random() returns a float in [0.0, 1.0); the model draws it in
\* quarters: 0.0, 0.5, 0.75.
RandomDraws == {0, 2, 3}
\* fill_probability, in quarters: 0.0 and 1.0
FillProbabilities == {0, 4}

\* reference prices a run sets: 1.0 and 2.0
RefPrices == { PriceUnit, 2 * PriceUnit }
\* limit prices of the requests: 1.0, and the prices just below and just
\* above it that lie inside the variation of _get_sim_price
LimitPrices == { PriceUnit - RateDen, PriceUnit, PriceUnit + RateDen }
Quantities == 1..MaxQty
ClientIds == {1}

\* quantity_percentage of a signal is n / PctDen: 0.5 and 1.0
PctDen == 2
\* the strategies of the configuration, in the order of self.strategies
StrategyNames == {"strategy_a", "strategy_b", "ma_crossover"}
ConfiguredStrategies == << "strategy_a", "strategy_b" >>

\* a StrategyConfig: the name, the class, the windows of a
\* MovingAverageCrossoverStrategy (0 for another class), and whether the
\* module and the class are found
StrategyConfig(name, class_name, short_window, long_window, importable) ==
    [ name |-> name, class_name |-> class_name, short_window |-> short_window,
      long_window |-> long_window, importable |-> importable ]

\* the configuration whose strategies, all sound, are these
ValidConfigs(loaded) ==
    [ i \in 1..Len(loaded) |->
        IF loaded[i] = "ma_crossover"
        THEN StrategyConfig(loaded[i], "MovingAverageCrossoverStrategy", 1, 2, TRUE)
        ELSE StrategyConfig(loaded[i], "Strategy", 0, 0, TRUE) ]

\* StrategyClass(...) returns: MovingAverageCrossoverStrategy.__init__
\* raises ValueError when short_window >= long_window
Constructs(conf) ==
    /\ conf.importable
    /\ conf.class_name = "MovingAverageCrossoverStrategy" => conf.short_window < conf.long_window

\* _load_strategies giving up at the first strategy that fails
_load_strategies_StopsAtFailure(configs) ==
    LET failing == { i \in 1..Len(configs) : ~Constructs(configs[i]) }
        last == IF failing = {} THEN Len(configs)
                ELSE (CHOOSE i \in failing : \A j \in failing : i <= j) - 1
    IN [ i \in 1..last |-> configs[i].name ]

\* TradingAgent._load_strategies: self.strategies, the strategies that
\* could be imported and constructed, in the order of the configuration
_load_strategies(configs) ==
    LET built == SelectSeq(configs, Constructs)
    IN [ i \in 1..Len(built) |-> built[i].name ]

\* SentimentLLMStrategy: target_symbols and quote_currency of its config
TargetSymbols == << "BTC", "ETH" >>
TargetSymbolSet == { TargetSymbols[i] : i \in 1..Len(TargetSymbols) }
QuoteCurrency == "USDT"

OrderIds == { [kind |-> "mock", n |-> i] : i \in 1..MaxOrders }
              \cup { [kind |-> "mock_open", n |-> i] : i \in 1..MaxOrders }
              \cup { [kind |-> "client", n |-> c] : c \in ClientIds }

\* OrderRequest: price is set iff the order is a LIMIT order.  Cids are the
\* client_order_id values the caller uses besides None.
OrderRequests(Syms, Cids) ==
    { [symbol |-> s, action |-> a, order_type |-> "MARKET", quantity |-> q,
       price |-> None, client_order_id |-> c] :
         s \in Syms, a \in {"BUY", "SELL"}, q \in Quantities,
         c \in {None} \cup { Some(i) : i \in Cids } }
    \cup
    { [symbol |-> s, action |-> a, order_type |-> "LIMIT", quantity |-> q,
       price |-> Some(p), client_order_id |-> c] :
         s \in Syms, a \in {"BUY", "SELL"}, q \in Quantities, p \in LimitPrices,
         c \in {None} \cup { Some(i) : i \in Cids } }

VARIABLES
    adapter,            \* which adapter class is running
    markets,            \* the symbols this run trades and prices
    fill_probability,   \* config "fill_probability", in quarters
    cash_balance,       \* portfolio.cash_balance, money units
    asset_holdings,     \* portfolio.asset_holdings, asset units
    total_value,        \* portfolio.total_value, money units
    open_orders,        \* adapter.open_orders : order_id -> ExecutedOrder
    trade_history,      \* adapter.trade_history : list of ExecutedOrder
    current_sim_prices, \* MockExchangeAdapter.current_sim_prices
    market_last,        \* the market data source's last price per symbol
    uuid_counter,       \* number of create_order calls (source of fresh uuids)
    ret,                \* the last call and what it returned or raised
    before,             \* the balances the last call started from
    \* ---- TradingAgent
    pc,                 \* where the agent is in start / _run_cycle / _process_signals
    strategies,         \* self.strategies : list of strategy names
    is_running,         \* self.is_running
    is_initialized,     \* strategy.is_initialized, per strategy
    init_result,        \* adapter and strategies: result of initialize()
    agent_portfolio,    \* self.portfolio : the object it refers to
    portfolio_for_strategies,   \* the object handed to generate_signals
    cycle,              \* number of cycles begun
    gen_idx,            \* position in self.strategies of the generation loop
    all_signals,        \* all_signals of the cycle
    sig_idx,            \* signals of all_signals already processed
    order_req,          \* the OrderRequest built for the signal in hand
    available,          \* available_quote_balance, available_base_balance read for it
    loop_error,         \* the exception that left the main loop
    gen_ret,            \* the last generate_signals call and what it returned
    observed,           \* the balances each strategy read in this cycle
    cycle_start,        \* the balances at the start of this cycle
    generated,          \* strategies generate_signals was ever called on
    raised,             \* per strategy, the cycles in which its generate_signals raised
    stop_requested,     \* stop() has been called
    stop_pc,            \* where the running stop() call is
    shutdown_result,    \* adapter and strategies: result of shutdown() in that call
    position_active,    \* strategy.position_active, per strategy
    notified,           \* strategies whose on_order_update the last signal's order reached
    active_positions,   \* SentimentLLMStrategy.active_positions, per target symbol
    strategy_configs,   \* config.strategies : the configured strategies
    shutdown_calls,     \* adapter and strategies: shutdown() calls made so far
    late_calls          \* adapter operations invoked after the adapter's shutdown()

vars == << adapter, markets, fill_probability, cash_balance, asset_holdings, total_value,
           open_orders, trade_history, current_sim_prices, market_last,
           uuid_counter, ret, before,
           pc, strategies, is_running, is_initialized, init_result, agent_portfolio,
           portfolio_for_strategies, cycle, gen_idx, all_signals, sig_idx, order_req,
           available, loop_error, gen_ret, observed, cycle_start, generated, raised,
           stop_requested, stop_pc, shutdown_result, position_active, notified, active_positions, strategy_configs, shutdown_calls, late_calls >>

adapter_config == << adapter, markets, fill_probability >>
adapter_books == << open_orders, trade_history >>
adapter_calls == << uuid_counter, ret, before >>
adapter_prices == << current_sim_prices, market_last >>
adapter_ledger == << cash_balance, asset_holdings, total_value >>
agent_vars == << pc, strategies, is_running, is_initialized, init_result, agent_portfolio,
                 portfolio_for_strategies, cycle, gen_idx, all_signals, sig_idx, order_req,
                 available, loop_error, gen_ret, observed, cycle_start, generated, raised,
                 stop_requested, stop_pc, shutdown_result, position_active, notified, active_positions, strategy_configs, shutdown_calls, late_calls >>
stop_vars == << stop_requested, stop_pc, shutdown_result >>

\* ------------------------------------------------------------- Portfolio
\* AgentPortfolio.update_cash / update_asset: add the (possibly negative)
\* delta to the entry, an absent entry counting as 0; no check.
update_cash(cash, currency, delta) ==
    [cash EXCEPT ![currency] = @ + delta]

update_asset(assets, asset, delta) ==
    [assets EXCEPT ![asset] = @ + delta]

RECURSIVE SumOver(_, _)
SumOver(f, S) ==
    IF S = {} THEN 0
    ELSE LET x == CHOOSE y \in S : TRUE IN f[x] + SumOver(f, S \ {x})

\* AgentPortfolio.calculate_total_value(prices): cash plus the holdings
\* valued at the given prices.
calculate_total_value(cash, assets, price_of) ==
    SumOver(cash, Currencies)
      + SumOver([a \in Currencies |-> assets[a] * price_of[a] * RateDen], Currencies)

\* --------------------------------------------------------------- prices
\* MockExchangeAdapter.get_current_price
get_current_price_mock(prices, symbol) == prices[symbol]

\* MockExchangeAdapterWithRealtimeData.get_current_price: the market data
\* source's price, 1.0 when it has none
get_current_price_realtime(last, symbol) ==
    IF IsSome(last[symbol]) THEN last[symbol] ELSE Some(PriceUnit)

\* MockExchangeAdapter._get_sim_price with the draw r (in quarters):
\* base_price * (1 + (r - 0.5) * 0.0005), base_price 1.0 when none is set.
\* (r - 0.5) * 0.0005 = (r4 - 2) / NoiseDen for r = r4 / 4.
_get_sim_price(prices, symbol, r) ==
    LET base_price == IF IsSome(prices[symbol]) THEN Val(prices[symbol]) ELSE PriceUnit
    IN  (base_price \div NoiseDen) * (NoiseDen + (r - 2))

\* quantity * price, in money units
Times(quantity, price) == quantity * price * RateDen
\* amount * (num / RateDen)
Fraction(amount, num) == (amount * num) \div RateDen

\* ---------------------------------------------------------- dictionaries
EmptyDict == [k \in {} |-> None]
\* d[k] = v
DictSet(d, k, v) == [x \in (DOMAIN d) \cup {k} |-> IF x = k THEN v ELSE d[x]]
\* d.pop(k)
DictPop(d, k) == [x \in (DOMAIN d) \ {k} |-> d[x]]

\* --------------------------------------------------------------- records
\* ExecutedOrder(...) as the adapters build it
ExecutedOrder(order_id, request, price, fee, status, sim_price) ==
    [ order_id |-> order_id,
      client_order_id |-> request.client_order_id,
      symbol |-> request.symbol,
      action |-> request.action,
      order_type |-> request.order_type,
      price |-> price,
      quantity |-> request.quantity,
      fee |-> fee,
      status |-> status,
      simulated_market_price_at_trade |-> sim_price ]

\* order_request.client_order_id or f"{prefix}_{uuid}"
NewOrderId(request, prefix, uuid) ==
    IF IsSome(request.client_order_id)
    THEN [kind |-> "client", n |-> Val(request.client_order_id)]
    ELSE [kind |-> prefix, n |-> uuid]

\* What the last call was and how it ended.  outcome is the status of the
\* returned order, the name of the raised error, or the returned value;
\* sim_price is the reference price create_order resolved (None when it
\* returned before resolving one); settlement is None unless create_order
\* reached the settlement step, and then holds the amounts computed there.
Result(op, outcome, order, request, order_id, sim_price, settlement) ==
    [ op |-> op, outcome |-> outcome, order |-> order, request |-> request,
      order_id |-> order_id, sim_price |-> sim_price, settlement |-> settlement ]

NoResult(op) == Result(op, "None", None, None, None, None, None)

\* the balances of the portfolio
Ledger == [cash |-> cash_balance, assets |-> asset_holdings]

InitialCash == [c \in Currencies |-> IF c = "USDT" THEN InitialCapital * MoneyUnit ELSE 0]

\* TradingAgent.__init__ with these strategies loaded
AgentConstructed(loaded) ==
    /\ pc = "new"
    /\ strategies = loaded
    /\ is_running = FALSE
    /\ is_initialized = [s \in StrategyNames |-> FALSE]
    /\ init_result = [c \in StrategyNames \cup {"adapter"} |-> "pending"]
    /\ agent_portfolio = "local"
    /\ portfolio_for_strategies = "local"
    /\ cycle = 0
    /\ gen_idx = 0
    /\ all_signals = << >>
    /\ sig_idx = 0
    /\ order_req = None
    /\ available = None
    /\ loop_error = None
    /\ gen_ret = None
    /\ observed = [s \in StrategyNames |-> None]
    /\ cycle_start = None
    /\ generated = {}
    /\ raised = [s \in StrategyNames |-> {}]
    /\ stop_requested = FALSE
    /\ stop_pc = "idle"
    /\ shutdown_result = [c \in StrategyNames \cup {"adapter"} |-> "pending"]
    /\ position_active = [s \in StrategyNames |-> FALSE]
    /\ notified = {}
    /\ active_positions = [symbol \in TargetSymbolSet |-> FALSE]
    /\ shutdown_calls = [c \in StrategyNames \cup {"adapter"} |-> 0]
    /\ late_calls = 0

\* the adapter after __init__
AdapterConstructed ==
    /\ adapter \in Adapters
    /\ markets \in { {s} : s \in Symbols }
    /\ fill_probability \in FillProbabilities
    /\ cash_balance = InitialCash
    /\ asset_holdings = [c \in Currencies |-> 0]
    /\ total_value = 0
    /\ open_orders = EmptyDict
    /\ trade_history = << >>
    /\ current_sim_prices = [s \in Symbols |-> None]
    /\ market_last = [s \in Symbols |-> None]
    /\ uuid_counter = 0
    /\ ret = NoResult("init")
    /\ before = Ledger

\* the adapter alone: an agent without strategies, which never starts
Init == AgentConstructed(<< >>) /\ AdapterConstructed /\ strategy_configs = << >>

\* ---------------------------------------------------------- create_order
\* NonFill comparing the draw with the probability of a non-fill
NonFill_Complement(r) == r > 4 - fill_probability

\* the non-fill roll: random.random() > self.fill_probability
NonFill(r) == r > fill_probability

\* The value get_current_price(symbol) returns (an optional price)
get_current_price(symbol) ==
    IF adapter = "MockExchangeAdapter"
    THEN get_current_price_mock(current_sim_prices, symbol)
    ELSE get_current_price_realtime(market_last, symbol)

\* The reference price create_order works with: _get_sim_price(symbol) in
\* MockExchangeAdapter (draw r), get_current_price(symbol) in
\* MockExchangeAdapterWithRealtimeData.
SimPrice(symbol, r) ==
    IF adapter = "MockExchangeAdapter"
    THEN _get_sim_price(current_sim_prices, symbol, r)
    ELSE Val(get_current_price_realtime(market_last, symbol))

\* ExecutionPrice with the slippage of a MARKET SELL added instead of taken off
ExecutionPrice_SellSlipsUp(request, sim_price) ==
    IF request.order_type = "LIMIT" THEN Val(request.price)
    ELSE Fraction(sim_price, RateDen + SlippageNum)

\* ExecutionPrice with a crossed LIMIT order executing at the reference price
ExecutionPrice_LimitAtSimPrice(request, sim_price) ==
    IF request.order_type = "LIMIT" THEN sim_price
    ELSE IF request.action = "BUY"
         THEN Fraction(sim_price, RateDen + SlippageNum)
         ELSE Fraction(sim_price, RateDen - SlippageNum)

\* execution_price: the limit price for LIMIT, the reference price with
\* slippage for MARKET
ExecutionPrice(request, sim_price) ==
    IF request.order_type = "LIMIT" THEN Val(request.price)
    ELSE IF request.action = "BUY"
         THEN Fraction(sim_price, RateDen + SlippageNum)
         ELSE Fraction(sim_price, RateDen - SlippageNum)

\* RestsOpen without the BUY branch
RestsOpen_SellOnly(request, sim_price) ==
    /\ request.order_type = "LIMIT"
    /\ request.action = "SELL" /\ sim_price < Val(request.price)

\* a LIMIT order that does not cross is placed as open
RestsOpen(request, sim_price) ==
    /\ request.order_type = "LIMIT"
    /\ \/ request.action = "BUY" /\ sim_price > Val(request.price)
       \/ request.action = "SELL" /\ sim_price < Val(request.price)

\* required_quote of a BUY
RequiredQuote(request, cost_or_proceeds, commission) ==
    cost_or_proceeds
      + (IF request.symbol.quote # request.symbol.base THEN commission ELSE 0)

\* the funds check of the settlement step fails
InsufficientFunds(request, cost_or_proceeds, commission) ==
    IF request.action = "BUY"
    THEN cash_balance[request.symbol.quote] < RequiredQuote(request, cost_or_proceeds, commission)
    ELSE asset_holdings[request.symbol.base] < request.quantity

\* SettledCash with the commission of a SELL left out
SettledCash_SellKeepsCommission(request, cost_or_proceeds, commission) ==
    IF request.action = "BUY"
    THEN update_cash(update_cash(cash_balance, request.symbol.quote, -cost_or_proceeds),
                     request.symbol.quote, -commission)
    ELSE update_cash(cash_balance, request.symbol.quote, cost_or_proceeds)

\* SettledCash with the commission of a BUY not debited
SettledCash_BuyWithoutCommission(request, cost_or_proceeds, commission) ==
    IF request.action = "BUY"
    THEN update_cash(cash_balance, request.symbol.quote, -cost_or_proceeds)
    ELSE update_cash(update_cash(cash_balance, request.symbol.quote, cost_or_proceeds),
                     request.symbol.quote, -commission)

\* the cash after the two update_cash calls of a BUY, of a SELL
SettledCash(request, cost_or_proceeds, commission) ==
    IF request.action = "BUY"
    THEN update_cash(update_cash(cash_balance, request.symbol.quote, -cost_or_proceeds),
                     request.symbol.quote, -commission)
    ELSE update_cash(update_cash(cash_balance, request.symbol.quote, cost_or_proceeds),
                     request.symbol.quote, -commission)

\* SettledAssets with a SELL crediting the base asset
SettledAssets_SellCredits(request) ==
    update_asset(asset_holdings, request.symbol.base, request.quantity)

\* the holdings after the update_asset call of a BUY, of a SELL
SettledAssets(request) ==
    IF request.action = "BUY"
    THEN update_asset(asset_holdings, request.symbol.base, request.quantity)
    ELSE update_asset(asset_holdings, request.symbol.base, -request.quantity)

\* MockExchangeAdapterWithRealtimeData revalues the portfolio after a
\* settlement, each asset at get_current_price(asset + "/USDT")
RevaluedTotal(cash, assets) ==
    IF adapter = "MockExchangeAdapterWithRealtimeData"
    THEN calculate_total_value(cash, assets,
             [a \in Currencies |->
                 Val(get_current_price_realtime(market_last, [base |-> a, quote |-> "USDT"]))])
    ELSE total_value

\* the non-fill branch: a REJECTED order is built and returned
RejectOrder(request, uuid) ==
    /\ ret' = Result("create_order", "REJECTED",
                     Some(ExecutedOrder(NewOrderId(request, "mock", uuid), request,
                                        IF IsSome(request.price) THEN Val(request.price) ELSE 0,
                                        None, "REJECTED", None)),
                     Some(request), None, None, None)
    /\ UNCHANGED << cash_balance, asset_holdings, total_value, open_orders, trade_history >>

\* PlaceOpen reserving the quantity of a resting SELL
PlaceOpen_ReservesAsset(request, uuid, sim_price) ==
    LET pending_order == ExecutedOrder(NewOrderId(request, "mock_open", uuid), request,
                                       Val(request.price), None, "OPEN", None)
    IN /\ open_orders' = DictSet(open_orders, pending_order.order_id, pending_order)
       /\ ret' = Result("create_order", "OPEN", Some(pending_order), Some(request),
                        None, Some(sim_price), None)
       /\ asset_holdings' = IF request.action = "SELL"
                             THEN update_asset(asset_holdings, request.symbol.base, -request.quantity)
                             ELSE asset_holdings
       /\ UNCHANGED << cash_balance, total_value, trade_history >>

\* the resting branch: the order is stored in open_orders and returned
PlaceOpen(request, uuid, sim_price) ==
    LET pending_order == ExecutedOrder(NewOrderId(request, "mock_open", uuid), request,
                                       Val(request.price), None, "OPEN", None)
    IN /\ open_orders' = DictSet(open_orders, pending_order.order_id, pending_order)
       /\ ret' = Result("create_order", "OPEN", Some(pending_order), Some(request),
                        None, Some(sim_price), None)
       /\ UNCHANGED << cash_balance, asset_holdings, total_value, trade_history >>

\* the settlement step: funds check, portfolio updates, FILLED order
Settle(request, uuid, sim_price) ==
    LET execution_price == ExecutionPrice(request, sim_price)
        cost_or_proceeds == Times(request.quantity, execution_price)
        commission == Fraction(cost_or_proceeds, CommissionNum)
        settlement == Some([ execution_price |-> execution_price,
                             cost |-> cost_or_proceeds, commission |-> commission ])
    IN IF InsufficientFunds(request, cost_or_proceeds, commission)
       THEN /\ ret' = Result("create_order", "InsufficientFundsError", None, Some(request),
                             None, Some(sim_price), settlement)
            /\ UNCHANGED << cash_balance, asset_holdings, total_value, open_orders, trade_history >>
       ELSE LET executed_order == ExecutedOrder(NewOrderId(request, "mock", uuid), request,
                                                execution_price, Some(commission), "FILLED",
                                                Some(sim_price))
                cash == SettledCash(request, cost_or_proceeds, commission)
                assets == SettledAssets(request)
            IN /\ cash_balance' = cash
               /\ asset_holdings' = assets
               /\ total_value' = RevaluedTotal(cash, assets)
               /\ trade_history' = Append(trade_history, executed_order)
               /\ ret' = Result("create_order", "FILLED", Some(executed_order), Some(request),
                                None, Some(sim_price), settlement)
               /\ UNCHANGED open_orders

\* create_order(order_request); r_fill and r_price are the values of the
\* two random.random() calls (the second one inside _get_sim_price).
create_order(request, r_fill, r_price) ==
    /\ uuid_counter < MaxOrders
    /\ uuid_counter' = uuid_counter + 1
    /\ UNCHANGED << adapter, markets, fill_probability, current_sim_prices, market_last >>
    /\ LET uuid == uuid_counter + 1 IN
       IF NonFill(r_fill)
       THEN RejectOrder(request, uuid)
       ELSE LET sim_price == SimPrice(request.symbol, r_price)
            IN IF RestsOpen(request, sim_price)
               THEN PlaceOpen(request, uuid, sim_price)
               ELSE Settle(request, uuid, sim_price)

\* ---------------------------------------------------------- cancel_order
\* CancelFound paying the cost of a cancelled BUY back into the cash
CancelFound_Releases(order_id) ==
    LET order_to_cancel == [open_orders[order_id] EXCEPT !.status = "CANCELED"]
    IN /\ open_orders' = DictPop(open_orders, order_id)
       /\ trade_history' = Append(trade_history, order_to_cancel)
       /\ ret' = Result("cancel_order", "True", None, None, Some(order_id), None, None)
       /\ cash_balance' = IF order_to_cancel.action = "BUY"
                          THEN update_cash(cash_balance, order_to_cancel.symbol.quote,
                                           Times(order_to_cancel.quantity, order_to_cancel.price))
                          ELSE cash_balance
       /\ UNCHANGED << asset_holdings, total_value >>

\* the order is open: it leaves open_orders and joins the history CANCELED
CancelFound(order_id) ==
    LET order_to_cancel == [open_orders[order_id] EXCEPT !.status = "CANCELED"]
    IN /\ open_orders' = DictPop(open_orders, order_id)
       /\ trade_history' = Append(trade_history, order_to_cancel)
       /\ ret' = Result("cancel_order", "True", None, None, Some(order_id), None, None)
       /\ UNCHANGED << cash_balance, asset_holdings, total_value >>

\* CancelNotFound reporting success
CancelNotFound_ReturnsTrue(order_id) ==
    /\ ret' = Result("cancel_order", "True", None, None, Some(order_id), None, None)
    /\ UNCHANGED << cash_balance, asset_holdings, total_value, open_orders, trade_history >>

\* the order is not open: False
CancelNotFound(order_id) ==
    /\ ret' = Result("cancel_order", "False", None, None, Some(order_id), None, None)
    /\ UNCHANGED << cash_balance, asset_holdings, total_value, open_orders, trade_history >>

cancel_order(order_id) ==
    /\ IF order_id \in DOMAIN open_orders
       THEN CancelFound(order_id)
       ELSE CancelNotFound(order_id)
    /\ UNCHANGED << adapter, markets, fill_probability, current_sim_prices, market_last,
                    uuid_counter >>

\* ------------------------------------------------------ get_order_status
\* the order found for order_id: the open one, else the first one in the
\* history, else None
OrderStatus(order_id) ==
    IF order_id \in DOMAIN open_orders
    THEN Some(open_orders[order_id])
    ELSE IF \E i \in 1..Len(trade_history) : trade_history[i].order_id = order_id
         THEN Some(trade_history[CHOOSE i \in 1..Len(trade_history) :
                       /\ trade_history[i].order_id = order_id
                       /\ \A j \in 1..(i - 1) : trade_history[j].order_id # order_id])
         ELSE None

get_order_status(order_id) ==
    /\ ret' = Result("get_order_status",
                     IF IsSome(OrderStatus(order_id)) THEN "order" ELSE "None",
                     OrderStatus(order_id), None, Some(order_id), None, None)
    /\ UNCHANGED << adapter, markets, fill_probability, cash_balance, asset_holdings, total_value,
                    open_orders, trade_history, current_sim_prices, market_last, uuid_counter >>

\* ---------------------------------------------------------- update_price
\* update_price also filling the resting orders of the symbol that the new
\* price crosses
update_price_MatchesResting(symbol, price) ==
    LET crossed == { id \in DOMAIN open_orders :
                       /\ open_orders[id].symbol = symbol
                       /\ IF open_orders[id].action = "BUY"
                          THEN price <= open_orders[id].price
                          ELSE price >= open_orders[id].price }
    IN /\ adapter = "MockExchangeAdapter"
       /\ current_sim_prices' = [current_sim_prices EXCEPT ![symbol] = Some(price)]
       /\ open_orders' = [id \in DOMAIN open_orders |->
                            IF id \in crossed
                            THEN [open_orders[id] EXCEPT !.status = "FILLED"]
                            ELSE open_orders[id]]
       /\ ret' = NoResult("update_price")
       /\ UNCHANGED << adapter, markets, fill_probability, cash_balance, asset_holdings,
                       total_value, trade_history, market_last, uuid_counter >>

\* MockExchangeAdapter.update_price(symbol, price)
update_price(symbol, price) ==
    /\ adapter = "MockExchangeAdapter"
    /\ current_sim_prices' = [current_sim_prices EXCEPT ![symbol] = Some(price)]
    /\ ret' = NoResult("update_price")
    /\ UNCHANGED << adapter, markets, fill_probability, cash_balance, asset_holdings, total_value,
                    open_orders, trade_history, market_last, uuid_counter >>

\* the market moves: the market data source reports a new last price (or
\* none) for a symbol.  Only MockExchangeAdapterWithRealtimeData reads it.
MarketTick(symbol, last) ==
    /\ adapter = "MockExchangeAdapterWithRealtimeData"
    /\ market_last' = [market_last EXCEPT ![symbol] = last]
    /\ ret' = NoResult("market")
    /\ UNCHANGED << adapter, markets, fill_probability, cash_balance, asset_holdings, total_value,
                    open_orders, trade_history, current_sim_prices, uuid_counter >>

\* The adapter as its caller in this repository drives it:
\* TradingAgent._process_signals never sets client_order_id.
\* a call of the adapter starts: the balances it starts from are noted
Called == before' = Ledger
\* the call is made directly, not by the agent
Direct == Called /\ UNCHANGED agent_vars

Next ==
    \/ \E request \in OrderRequests(markets, {}), r_fill \in RandomDraws, r_price \in RandomDraws :
          create_order(request, r_fill, r_price) /\ Direct
    \/ \E order_id \in OrderIds : cancel_order(order_id) /\ Direct
    \/ \E order_id \in OrderIds : get_order_status(order_id) /\ Direct
    \/ \E symbol \in markets, price \in RefPrices : update_price(symbol, price) /\ Direct
    \/ \E symbol \in markets, last \in {None} \cup { Some(p) : p \in RefPrices } :
          MarketTick(symbol, last) /\ Direct

Spec == Init /\ [][Next]_vars

\* ======================================================================
\* TradingAgent (agent/trading_agent.py) driving the adapter
\* ======================================================================
adapter_vars == << adapter_config, adapter_books, adapter_calls, adapter_prices, adapter_ledger >>

\* TradingSignal as the strategies build it
TradingSignal(strategy_name, symbol, action, quantity_absolute, quantity_percentage, price) ==
    [ strategy_name |-> strategy_name, symbol |-> symbol, action |-> action,
      quantity_absolute |-> quantity_absolute,
      quantity_percentage |-> quantity_percentage, price |-> price ]

\* the signals a strategy emits for a symbol: HOLD; BUY of an absolute
\* quantity at market; BUY of 50% of the cash at a price; BUY of 50% of the
\* cash without a price; SELL of 100% of the holding at market
Signals(strategy_name, symbol) ==
    { TradingSignal(strategy_name, symbol, "HOLD", None, None, None),
      TradingSignal(strategy_name, symbol, "BUY", Some(1), None, None),
      TradingSignal(strategy_name, symbol, "BUY", None, Some(1), Some(PriceUnit)),
      TradingSignal(strategy_name, symbol, "BUY", None, Some(1), None),
      TradingSignal(strategy_name, symbol, "SELL", None, Some(PctDen), None) }

\* what one generate_signals call does: it raises, or returns a list of
\* at most one signal
StrategyOutputs(strategy_name, symbol) ==
    IF strategy_name = "ma_crossover" THEN {} ELSE
    { [raises |-> TRUE, signals |-> << >>], [raises |-> FALSE, signals |-> << >>] }
    \cup { [raises |-> FALSE, signals |-> << sig >>] : sig \in Signals(strategy_name, symbol) }

\* what a reference to a portfolio shows: get_account_balance returns the
\* adapter's own portfolio object; "local" is the AgentPortfolio the agent
\* built in __init__ from the configured initial capital
PortfolioRead(ref) ==
    IF ref = "adapter" THEN Ledger
    ELSE [cash |-> InitialCash, assets |-> [c \in Currencies |-> 0]]

\* AvailableBalances reading the balances the cycle started with
AvailableBalances_AtCycleStart(signal) ==
    [ quote |-> Val(cycle_start).cash[signal.symbol.quote],
      base |-> Val(cycle_start).assets[signal.symbol.base] ]

\* available_quote_balance, available_base_balance: read from the portfolio
\* get_account_balance has just returned
AvailableBalances(signal) ==
    [ quote |-> PortfolioRead("adapter").cash[signal.symbol.quote],
      base |-> PortfolioRead("adapter").assets[signal.symbol.base] ]

\* ResolveQuantity without the minimum quantity
ResolveQuantity_NoMinimum(signal, balances) ==
    LET skipped == [outcome |-> "skip", quantity |-> 0]
        resolved(q) == [outcome |-> "order", quantity |-> q]
    IN IF signal.action = "BUY"
       THEN IF IsSome(signal.quantity_absolute)
            THEN resolved(Val(signal.quantity_absolute))
            ELSE IF IsSome(signal.quantity_percentage)
                 THEN IF ~IsSome(signal.price)
                      THEN [outcome |-> "TypeError", quantity |-> 0]
                      ELSE resolved((balances.quote * Val(signal.quantity_percentage))
                                      \div (PctDen * Times(1, Val(signal.price))))
                 ELSE skipped
       ELSE IF IsSome(signal.quantity_absolute)
            THEN resolved(Val(signal.quantity_absolute))
            ELSE IF IsSome(signal.quantity_percentage)
                 THEN resolved((balances.base * Val(signal.quantity_percentage)) \div PctDen)
                 ELSE skipped

\* the quantity resolution of _process_signals: the signal is skipped
\* (continue), an exception leaves the loop, or the quantity is resolved.
\* A BUY sized by percentage without a price takes the value of
\* exchange_adapter.get_current_price(symbol), which is called without await:
\* the coroutine object is truthy, becomes target_price, and target_price > 0
\* raises TypeError.  A quantity is a whole number of units: the quotient is
\* rounded down.
ResolveQuantity(signal, balances) ==
    LET skipped == [outcome |-> "skip", quantity |-> 0]
        resolved(q) == IF q <= 0 THEN skipped ELSE [outcome |-> "order", quantity |-> q]
    IN IF signal.action = "BUY"
       THEN IF IsSome(signal.quantity_absolute)
            THEN resolved(Val(signal.quantity_absolute))
            ELSE IF IsSome(signal.quantity_percentage)
                 THEN IF ~IsSome(signal.price)
                      THEN [outcome |-> "TypeError", quantity |-> 0]
                      ELSE resolved((balances.quote * Val(signal.quantity_percentage))
                                      \div (PctDen * Times(1, Val(signal.price))))
                 ELSE skipped
       ELSE IF IsSome(signal.quantity_absolute)
            THEN resolved(Val(signal.quantity_absolute))
            ELSE IF IsSome(signal.quantity_percentage)
                 THEN resolved((balances.base * Val(signal.quantity_percentage)) \div PctDen)
                 ELSE skipped

\* BuildOrderRequest placing every order at market
BuildOrderRequest_AlwaysMarket(signal, quantity) ==
    [ symbol |-> signal.symbol, action |-> signal.action,
      order_type |-> "MARKET",
      quantity |-> quantity,
      price |-> None,
      client_order_id |-> None ]

\* OrderRequest(...) of _process_signals: LIMIT at the signal's price when
\* the signal has one, MARKET without a price otherwise; no client_order_id
BuildOrderRequest(signal, quantity) ==
    [ symbol |-> signal.symbol, action |-> signal.action,
      order_type |-> IF IsSome(signal.price) THEN "LIMIT" ELSE "MARKET",
      quantity |-> quantity,
      price |-> IF IsSome(signal.price) THEN signal.price ELSE None,
      client_order_id |-> None ]

\* where _run_cycle goes after the generation loop, _process_signals after
\* a signal
AfterGeneration(idx, signals) ==
    IF idx <= Len(strategies) THEN "generate"
    ELSE IF signals # << >> THEN "process" ELSE "end_cycle"

AfterSignal(idx) == IF idx < Len(all_signals) THEN "process" ELSE "end_cycle"

\* start(): returns at once without strategies, else goes on to
\* initialize_components
start ==
    /\ pc = "new"
    /\ pc' = IF strategies = << >> THEN "returned" ELSE "init_adapter"
    /\ UNCHANGED << strategies, is_running, is_initialized, init_result, agent_portfolio,
                    portfolio_for_strategies, cycle, gen_idx, all_signals, sig_idx, order_req,
                    available, loop_error, gen_ret, observed, cycle_start, generated, raised >>
    /\ UNCHANGED adapter_vars
    /\ UNCHANGED << stop_vars, position_active, notified, active_positions, strategy_configs, shutdown_calls, late_calls >>

\* initialize_components, first part: exchange_adapter.initialize() and
\* get_account_balance().  A failure is logged and the agent goes on.  (The
\* two mock adapters never raise here; an adapter behind BaseExchangeAdapter
\* may.)
initialize_adapter(ok) ==
    /\ pc = "init_adapter"
    /\ init_result' = [init_result EXCEPT !["adapter"] = IF ok THEN "ok" ELSE "failed"]
    /\ agent_portfolio' = IF ok THEN "adapter" ELSE agent_portfolio
    /\ pc' = "init_strategies"
    /\ UNCHANGED << strategies, is_running, is_initialized,
                    portfolio_for_strategies, cycle, gen_idx, all_signals, sig_idx, order_req,
                    available, loop_error, gen_ret, observed, cycle_start, generated, raised >>
    /\ UNCHANGED adapter_vars
    /\ UNCHANGED << stop_vars, position_active, notified, active_positions, strategy_configs, shutdown_calls, late_calls >>

\* the outcomes of one strategy's initialize(): it succeeds, it raises after
\* BaseStrategy.initialize has run (the strategies of this repository call
\* super().initialize() first), or it raises before.  strategy_b is a
\* strategy whose initialize cannot raise, as MovingAverageCrossoverStrategy,
\* which catches every error of its data fetch.
InitOutcomes(s) ==
    IF s = "strategy_a" THEN {"ok", "raises_after_base", "raises_before_base"} ELSE {"ok"}

\* initialize_components, second part: one strategy's initialize() of the
\* gather.  BaseStrategy.initialize sets is_initialized; the agent only logs
\* a failure.  After the last one, start() sets is_running and enters the
\* loop.
strategy_initialize(s, outcome) ==
    /\ pc = "init_strategies"
    /\ \E i \in 1..Len(strategies) : strategies[i] = s
    /\ init_result[s] = "pending"
    /\ is_initialized' = [is_initialized EXCEPT ![s] = (outcome # "raises_before_base")]
    /\ init_result' = [init_result EXCEPT ![s] = IF outcome = "ok" THEN "ok" ELSE "failed"]
    /\ LET done == \A i \in 1..Len(strategies) : init_result'[strategies[i]] # "pending"
       IN /\ is_running' = done
          /\ pc' = IF done THEN "loop" ELSE "init_strategies"
    /\ UNCHANGED << strategies, agent_portfolio,
                    portfolio_for_strategies, cycle, gen_idx, all_signals, sig_idx, order_req,
                    available, loop_error, gen_ret, observed, cycle_start, generated, raised >>
    /\ UNCHANGED adapter_vars
    /\ UNCHANGED << stop_vars, position_active, notified, active_positions, strategy_configs, shutdown_calls, late_calls >>

\* _run_cycle, up to the generation loop: MockExchangeAdapter gets the
\* ticker's last price of the strategies' symbol, if there is one; the
\* portfolio for the strategies is fetched (get_account_balance of the two
\* adapters returns self.portfolio and cannot raise)
begin_cycle(ticker_last) ==
    /\ pc = "loop" /\ is_running
    /\ cycle < MaxCycles
    /\ cycle' = cycle + 1
    /\ IF adapter = "MockExchangeAdapter" /\ IsSome(ticker_last)
       THEN /\ update_price(CHOOSE symbol \in markets : TRUE, Val(ticker_last))
            /\ Called
       ELSE UNCHANGED adapter_vars
    /\ portfolio_for_strategies' = "adapter"
    /\ all_signals' = << >>
    /\ gen_idx' = 1
    /\ sig_idx' = 0
    /\ gen_ret' = None
    /\ observed' = [s \in StrategyNames |-> None]
    /\ cycle_start' = Some(Ledger)
    /\ pc' = "generate"
    /\ UNCHANGED << strategies, is_running, is_initialized, init_result, agent_portfolio,
                    order_req, available, loop_error, generated, raised >>
    /\ UNCHANGED << stop_vars, position_active, notified, active_positions, strategy_configs, shutdown_calls, late_calls >>

\* the generation loop on a strategy that is not initialized: skipped
skip_uninitialized ==
    /\ pc = "generate"
    /\ ~is_initialized[strategies[gen_idx]]
    /\ gen_idx' = gen_idx + 1
    /\ gen_ret' = Some([strategy |-> strategies[gen_idx], outcome |-> "skipped",
                        signals |-> << >>])
    /\ pc' = AfterGeneration(gen_idx + 1, all_signals)
    /\ UNCHANGED << strategies, is_running, is_initialized, init_result, agent_portfolio,
                    portfolio_for_strategies, cycle, all_signals, sig_idx, order_req,
                    available, loop_error, observed, cycle_start, generated, raised >>
    /\ UNCHANGED adapter_vars
    /\ UNCHANGED << stop_vars, position_active, notified, active_positions, strategy_configs, shutdown_calls, late_calls >>

\* generate_signals with an exception of a strategy ending the generation
\* loop of the cycle
generate_signals_RaiseEndsGeneration(out) ==
    LET s == strategies[gen_idx] IN
    /\ pc = "generate"
    /\ is_initialized[s]
    /\ out \in StrategyOutputs(s, CHOOSE symbol \in markets : TRUE)
    /\ observed' = [observed EXCEPT ![s] = Some(PortfolioRead(portfolio_for_strategies))]
    /\ generated' = generated \cup {s}
    /\ raised' = IF out.raises THEN [raised EXCEPT ![s] = @ \cup {cycle}] ELSE raised
    /\ all_signals' = all_signals \o out.signals
    /\ gen_ret' = Some([strategy |-> s,
                        outcome |-> IF out.raises THEN "raised" ELSE "returned",
                        signals |-> out.signals])
    /\ gen_idx' = gen_idx + 1
    /\ pc' = IF out.raises
             THEN AfterGeneration(Len(strategies) + 1, all_signals')
             ELSE AfterGeneration(gen_idx + 1, all_signals')
    /\ UNCHANGED << strategies, is_running, is_initialized, init_result, agent_portfolio,
                    portfolio_for_strategies, cycle, sig_idx, order_req,
                    available, loop_error, cycle_start >>
    /\ UNCHANGED adapter_vars
    /\ UNCHANGED << stop_vars, position_active, notified, active_positions, strategy_configs, shutdown_calls, late_calls >>

\* generate_signals with the strategy writing to the portfolio it is handed
generate_signals_WritesPortfolio(out) ==
    LET s == strategies[gen_idx] IN
    /\ pc = "generate"
    /\ is_initialized[s]
    /\ out \in StrategyOutputs(s, CHOOSE symbol \in markets : TRUE)
    /\ observed' = [observed EXCEPT ![s] = Some(PortfolioRead(portfolio_for_strategies))]
    /\ generated' = generated \cup {s}
    /\ raised' = IF out.raises THEN [raised EXCEPT ![s] = @ \cup {cycle}] ELSE raised
    /\ all_signals' = all_signals \o out.signals
    /\ gen_ret' = Some([strategy |-> s,
                        outcome |-> IF out.raises THEN "raised" ELSE "returned",
                        signals |-> out.signals])
    /\ gen_idx' = gen_idx + 1
    /\ pc' = AfterGeneration(gen_idx + 1, all_signals')
    /\ cash_balance' = update_cash(cash_balance, "USDT", -Len(out.signals))
    /\ UNCHANGED << strategies, is_running, is_initialized, init_result, agent_portfolio,
                    portfolio_for_strategies, cycle, sig_idx, order_req,
                    available, loop_error, cycle_start >>
    /\ UNCHANGED << adapter_config, adapter_books, adapter_calls, adapter_prices,
                    asset_holdings, total_value >>
    /\ UNCHANGED << stop_vars, position_active, notified, active_positions, strategy_configs, shutdown_calls, late_calls >>

\* the generation loop on an initialized strategy: generate_signals is
\* called with portfolio_for_strategies; what it returns is appended to
\* all_signals; an exception is logged and the loop goes on
generate_signals(out) ==
    LET s == strategies[gen_idx] IN
    /\ pc = "generate"
    /\ is_initialized[s]
    /\ out \in StrategyOutputs(s, CHOOSE symbol \in markets : TRUE)
    /\ observed' = [observed EXCEPT ![s] = Some(PortfolioRead(portfolio_for_strategies))]
    /\ generated' = generated \cup {s}
    /\ raised' = IF out.raises THEN [raised EXCEPT ![s] = @ \cup {cycle}] ELSE raised
    /\ all_signals' = all_signals \o out.signals
    /\ gen_ret' = Some([strategy |-> s,
                        outcome |-> IF out.raises THEN "raised" ELSE "returned",
                        signals |-> out.signals])
    /\ gen_idx' = gen_idx + 1
    /\ pc' = AfterGeneration(gen_idx + 1, all_signals')
    /\ UNCHANGED << strategies, is_running, is_initialized, init_result, agent_portfolio,
                    portfolio_for_strategies, cycle, sig_idx, order_req,
                    available, loop_error, cycle_start >>
    /\ UNCHANGED adapter_vars
    /\ UNCHANGED << stop_vars, position_active, notified, active_positions, strategy_configs, shutdown_calls, late_calls >>

\* the moving averages of the last two rows of the strategy's data
SmaValues == 0..MaxSma

\* MovingAverageCrossoverStrategy.generate_signals on data whose last two
\* rows have these averages and this close: the signals it returns and the
\* position_active it leaves.  A BUY is sized at trade_quantity_percentage
\* (1 / PctDen here), a SELL at 100%, both at the close.
CrossoverSignals(strategy_name, symbol, has_data, prev_sma_short, prev_sma_long, sma_short, sma_long, current_price, active, portfolio) ==
    IF ~has_data
    THEN [signals |-> << >>, active |-> active]
    ELSE IF prev_sma_short <= prev_sma_long /\ sma_short > sma_long
    THEN IF ~active
         THEN IF portfolio.cash[symbol.quote] > 0
              THEN [signals |-> << TradingSignal(strategy_name, symbol, "BUY", None,
                                                 Some(1), Some(current_price)) >>,
                    active |-> TRUE]
              ELSE [signals |-> << >>, active |-> active]
         ELSE [signals |-> << >>, active |-> active]
    ELSE IF prev_sma_short >= prev_sma_long /\ sma_short < sma_long
    THEN IF active
         THEN IF portfolio.assets[symbol.base] > 0
              THEN [signals |-> << TradingSignal(strategy_name, symbol, "SELL", None,
                                                 Some(PctDen), Some(current_price)) >>,
                    active |-> FALSE]
              ELSE [signals |-> << >>, active |-> FALSE]
         ELSE [signals |-> << >>, active |-> active]
    ELSE [signals |-> << TradingSignal(strategy_name, symbol, "HOLD", None, None, None) >>,
          active |-> active]

\* the generation loop on the MovingAverageCrossoverStrategy
crossover_generate_signals(has_data, prev_sma_short, prev_sma_long, sma_short, sma_long, current_price) ==
    LET s == strategies[gen_idx]
        out == CrossoverSignals(s, CHOOSE symbol \in markets : TRUE, has_data,
                                prev_sma_short, prev_sma_long, sma_short, sma_long,
                                current_price, position_active[s],
                                PortfolioRead(portfolio_for_strategies))
    IN /\ pc = "generate"
       /\ s = "ma_crossover"
       /\ is_initialized[s]
       /\ observed' = [observed EXCEPT ![s] = Some(PortfolioRead(portfolio_for_strategies))]
       /\ generated' = generated \cup {s}
       /\ position_active' = [position_active EXCEPT ![s] = out.active]
       /\ all_signals' = all_signals \o out.signals
       /\ gen_ret' = Some([strategy |-> s, outcome |-> "returned", signals |-> out.signals,
                           has_data |-> has_data, active |-> position_active[s],
                           prev_sma_short |-> prev_sma_short, prev_sma_long |-> prev_sma_long,
                           sma_short |-> sma_short, sma_long |-> sma_long])
       /\ gen_idx' = gen_idx + 1
       /\ pc' = AfterGeneration(gen_idx + 1, all_signals')
       /\ UNCHANGED << strategies, is_running, is_initialized, init_result, agent_portfolio,
                       portfolio_for_strategies, cycle, sig_idx, order_req,
                       available, loop_error, cycle_start, raised >>
       /\ UNCHANGED adapter_vars
       /\ UNCHANGED << stop_vars, notified, active_positions, strategy_configs, shutdown_calls, late_calls >>

\* _process_signals on the next signal, up to the OrderRequest: HOLD is
\* passed over; the balance is fetched; the quantity is resolved
process_signal ==
    LET signal == all_signals[sig_idx + 1]
        balances == AvailableBalances(signal)
        resolution == ResolveQuantity(signal, balances)
    IN /\ pc = "process"
       /\ sig_idx < Len(all_signals)
       /\ IF signal.action = "HOLD"
          THEN /\ sig_idx' = sig_idx + 1
               /\ pc' = AfterSignal(sig_idx + 1)
               /\ UNCHANGED << agent_portfolio, order_req, available, loop_error >>
          ELSE /\ agent_portfolio' = "adapter"
               /\ IF resolution.outcome = "skip"
                  THEN /\ sig_idx' = sig_idx + 1
                       /\ pc' = AfterSignal(sig_idx + 1)
                       /\ UNCHANGED << order_req, available, loop_error >>
                  ELSE IF resolution.outcome = "order"
                  THEN /\ order_req' = Some(BuildOrderRequest(signal, resolution.quantity))
                       /\ available' = Some(balances)
                       /\ pc' = "submit"
                       /\ UNCHANGED << sig_idx, loop_error >>
                  ELSE /\ loop_error' = Some(resolution.outcome)
                       /\ pc' = "loop_failed"
                       /\ UNCHANGED << sig_idx, order_req, available >>
       /\ UNCHANGED << strategies, is_running, is_initialized, init_result,
                       portfolio_for_strategies, cycle, gen_idx, all_signals,
                       gen_ret, observed, cycle_start, generated, raised >>
       /\ UNCHANGED adapter_vars
       /\ notified' = {}
       /\ UNCHANGED << stop_vars, position_active, active_positions, strategy_configs, shutdown_calls, late_calls >>

\* OriginatingStrategy notifying every strategy of the agent
OriginatingStrategy_Every(signal) ==
    { strategies[i] : i \in 1..Len(strategies) }

\* the strategy _process_signals notifies: the first of self.strategies whose
\* strategy_name is the signal's (for ... if ... break)
OriginatingStrategy(signal) ==
    { strategies[i] : i \in { j \in 1..Len(strategies) :
                                /\ strategies[j] = signal.strategy_name
                                /\ \A k \in 1..(j - 1) : strategies[k] # signal.strategy_name } }

\* MovingAverageCrossoverStrategy.on_order_update: position_active follows a
\* FILLED order of the strategy's symbol and nothing else.  The strategies
\* standing for BaseStrategy keep no flag.
on_order_update(flags, s, order) ==
    IF s = "ma_crossover" /\ order.status = "FILLED"
    THEN [flags EXCEPT ![s] = (order.action = "BUY")]
    ELSE flags

\* _process_signals, the order of the signal in hand: create_order, then the
\* balance is fetched again and the strategy is notified; an exception of
\* create_order is logged; the loop goes on to the next signal
submit_order(r_fill, r_price) ==
    /\ pc = "submit"
    /\ create_order(Val(order_req), r_fill, r_price)
    /\ Called
    /\ agent_portfolio' = IF ret'.outcome # "InsufficientFundsError"
                          THEN "adapter" ELSE agent_portfolio
    /\ sig_idx' = sig_idx + 1
    /\ pc' = AfterSignal(sig_idx + 1)
    /\ order_req' = None
    /\ available' = None
    /\ UNCHANGED << strategies, is_running, is_initialized, init_result,
                    portfolio_for_strategies, cycle, gen_idx, all_signals, loop_error,
                    gen_ret, observed, cycle_start, generated, raised >>
    /\ notified' = IF IsSome(ret'.order)
                   THEN OriginatingStrategy(all_signals[sig_idx + 1]) ELSE {}
    /\ position_active' =
          [s \in StrategyNames |->
              IF s \in notified'
              THEN on_order_update(position_active, s, Val(ret'.order))[s]
              ELSE position_active[s]]
    /\ UNCHANGED << stop_vars, active_positions, strategy_configs, shutdown_calls, late_calls >>

\* _run_cycle, the end: the final get_account_balance, then the sleep of
\* start(); the locals of the cycle are gone
end_cycle ==
    /\ pc = "end_cycle"
    /\ pc' = "loop"
    /\ all_signals' = << >>
    /\ gen_idx' = 0
    /\ sig_idx' = 0
    /\ gen_ret' = None
    /\ observed' = [s \in StrategyNames |-> None]
    /\ cycle_start' = None
    /\ UNCHANGED << strategies, is_running, is_initialized, init_result, agent_portfolio,
                    portfolio_for_strategies, cycle, order_req,
                    available, loop_error, generated, raised >>
    /\ UNCHANGED adapter_vars
    /\ notified' = {}
    /\ UNCHANGED << stop_vars, position_active, active_positions, strategy_configs, shutdown_calls, late_calls >>

\* the market moves while the agent runs.  Only create_order and the start
\* of a cycle read the price, so a move at any other moment shows as a move
\* just before the next of them.
AgentMarketTick(symbol, last) ==
    /\ pc \in {"loop", "submit"}
    /\ MarketTick(symbol, last)
    /\ Direct

\* MockExchangeAdapter.shutdown / MockExchangeAdapterWithRealtimeData.shutdown
shutdown ==
    /\ open_orders' = EmptyDict
    /\ ret' = NoResult("shutdown")
    /\ UNCHANGED << adapter_config, adapter_prices, adapter_ledger, trade_history,
                    uuid_counter >>

\* an exception has left the loop of start(): it is logged and the finally
\* clause runs stop(), which clears is_running, shuts the strategies and the
\* adapter down and fetches the final portfolio from the adapter
stop_after_error ==
    /\ pc = "loop_failed"
    /\ is_running' = FALSE
    /\ shutdown /\ Called
    /\ shutdown_calls' = [c \in StrategyNames \cup {"adapter"} |->
                            IF c = "adapter" \/ \E i \in 1..Len(strategies) : strategies[i] = c
                            THEN shutdown_calls[c] + 1 ELSE shutdown_calls[c]]
    /\ late_calls' = late_calls + 1
    /\ pc' = "stopped"
    /\ UNCHANGED << strategies, is_initialized, init_result, agent_portfolio,
                    portfolio_for_strategies, cycle, gen_idx, all_signals, sig_idx, order_req,
                    available, loop_error, gen_ret, observed, cycle_start, generated, raised >>
    /\ UNCHANGED << stop_vars, position_active, notified, active_positions, strategy_configs >>

\* the agent as main_agent_executor runs it, on the symbol of its strategies
AgentInit ==
    /\ \E loaded \in { << >>, ConfiguredStrategies } : AgentConstructed(loaded)
    /\ strategy_configs = ValidConfigs(strategies)
    /\ AdapterConstructed
    /\ markets = { [base |-> "BTC", quote |-> "USDT"] }

AgentNext ==
    \/ start
    \/ \E ok \in BOOLEAN : initialize_adapter(ok)
    \/ \E s \in StrategyNames : \E outcome \in InitOutcomes(s) : strategy_initialize(s, outcome)
    \/ \E ticker_last \in {None} \cup { Some(p) : p \in RefPrices } :
          begin_cycle(ticker_last)
    \/ skip_uninitialized
    \/ \E out \in UNION { StrategyOutputs(s, symbol) : s \in StrategyNames, symbol \in markets } :
          generate_signals(out)
    \/ process_signal
    \/ \E r_fill \in RandomDraws, r_price \in RandomDraws : submit_order(r_fill, r_price)
    \/ end_cycle
    \/ stop_after_error
    \/ \E symbol \in markets, last \in {None} \cup { Some(p) : p \in RefPrices } :
          AgentMarketTick(symbol, last)

AgentSpec == AgentInit /\ [][AgentNext]_vars

\* ---------------------------------------------------------- one strategy
\* the agent configured with the MovingAverageCrossoverStrategy alone
StrategyInit ==
    /\ AgentConstructed(<< "ma_crossover" >>)
    /\ strategy_configs = ValidConfigs(strategies)
    /\ AdapterConstructed
    /\ markets = { [base |-> "BTC", quote |-> "USDT"] }

StrategyNext ==
    \/ start
    \/ \E ok \in BOOLEAN : initialize_adapter(ok)
    \/ \E outcome \in InitOutcomes("ma_crossover") : strategy_initialize("ma_crossover", outcome)
    \/ \E ticker_last \in {None} \cup { Some(p) : p \in RefPrices } :
          begin_cycle(ticker_last)
    \/ \E has_data \in BOOLEAN, prev_sma_short \in SmaValues, prev_sma_long \in SmaValues,
          sma_short \in SmaValues, sma_long \in SmaValues, current_price \in LimitPrices :
          crossover_generate_signals(has_data, prev_sma_short, prev_sma_long,
                                     sma_short, sma_long, current_price)
    \/ process_signal
    \/ \E r_fill \in RandomDraws, r_price \in RandomDraws : submit_order(r_fill, r_price)
    \/ end_cycle
    \/ \E symbol \in markets, last \in {None} \cup { Some(p) : p \in RefPrices } :
          AgentMarketTick(symbol, last)

StrategySpec == StrategyInit /\ [][StrategyNext]_vars

\* ------------------------------------------------------- _load_strategies
\* the configurations: strategy_a, strategy_b (whose module may be missing)
\* and a MovingAverageCrossoverStrategy with any windows, placed first,
\* between or last
LoadConfigs ==
    { [ i \in 1..3 |->
          IF i = at
          THEN StrategyConfig("ma_crossover", "MovingAverageCrossoverStrategy",
                              short_window, long_window, TRUE)
          ELSE IF i = (IF at = 1 THEN 2 ELSE 1)
               THEN StrategyConfig("strategy_a", "Strategy", 0, 0, TRUE)
               ELSE StrategyConfig("strategy_b", "Strategy", 0, 0, importable) ] :
        at \in 1..3, short_window \in 1..MaxWindow, long_window \in 1..MaxWindow,
        importable \in BOOLEAN }

\* TradingAgent.__init__ on such a configuration
LoadInit ==
    /\ \E configs \in LoadConfigs :
          /\ strategy_configs = configs
          /\ AgentConstructed(_load_strategies(configs))
    /\ AdapterConstructed
    /\ markets = { [base |-> "BTC", quote |-> "USDT"] }

\* the agent run on what it loaded, strategies that emit no signal
LoadNext ==
    \/ start
    \/ \E ok \in BOOLEAN : initialize_adapter(ok)
    \/ \E s \in StrategyNames : \E outcome \in InitOutcomes(s) : strategy_initialize(s, outcome)
    \/ begin_cycle(None)
    \/ skip_uninitialized
    \/ \E raises \in BOOLEAN : generate_signals([raises |-> raises, signals |-> << >>])
    \/ crossover_generate_signals(FALSE, 0, 0, 0, 0, PriceUnit)
    \/ end_cycle

LoadSpec == LoadInit /\ [][LoadNext]_vars

\* ------------------------------------------------------------------ stop
\* the frame of the stop() steps
stop_frame ==
    UNCHANGED << strategies, is_initialized, init_result, agent_portfolio,
                 portfolio_for_strategies, cycle, gen_idx, all_signals, sig_idx, order_req,
                 available, loop_error, gen_ret, observed, cycle_start, generated, raised,
                 position_active, notified, active_positions, strategy_configs >>

\* stop() called from outside the loop's task while start() is under way:
\* it clears is_running and starts the strategies' shutdown
request_stop ==
    /\ pc \in {"init_adapter", "init_strategies", "loop", "generate", "end_cycle"}
    /\ stop_pc = "idle"
    /\ is_running' = FALSE
    /\ stop_requested' = TRUE
    /\ stop_pc' = "strategies"
    /\ UNCHANGED << pc, shutdown_result, shutdown_calls, late_calls >>
    /\ stop_frame
    /\ UNCHANGED adapter_vars

\* while self.is_running is found false after the sleep: the loop of
\* start() ends and its finally clause calls stop()
loop_exit ==
    /\ pc = "loop" /\ ~is_running
    /\ stop_pc = "done"
    /\ pc' = "finally"
    /\ is_running' = FALSE
    /\ stop_pc' = "strategies"
    /\ shutdown_result' = [c \in StrategyNames \cup {"adapter"} |-> "pending"]
    /\ UNCHANGED << stop_requested, shutdown_calls, late_calls >>
    /\ stop_frame
    /\ UNCHANGED adapter_vars

\* one strategy's shutdown() of the gather of stop(): it returns or raises;
\* return_exceptions=True keeps the exception as a result
strategy_shutdown(s, ok) ==
    /\ stop_pc = "strategies"
    /\ \E i \in 1..Len(strategies) : strategies[i] = s
    /\ shutdown_result[s] = "pending"
    /\ shutdown_result' = [shutdown_result EXCEPT ![s] = IF ok THEN "ok" ELSE "failed"]
    /\ shutdown_calls' = [shutdown_calls EXCEPT ![s] = @ + 1]
    /\ UNCHANGED << pc, is_running, stop_requested, stop_pc, late_calls >>
    /\ stop_frame
    /\ UNCHANGED adapter_vars

\* stop() after the gather: the adapter's shutdown(), whose exception is
\* logged, and the final portfolio log, which calls the adapter's
\* get_account_balance(); stop() returns, to start() or to the executor
adapter_shutdown(ok) ==
    /\ stop_pc = "strategies"
    /\ \A i \in 1..Len(strategies) : shutdown_result[strategies[i]] # "pending"
    /\ IF ok THEN shutdown /\ Called ELSE UNCHANGED adapter_vars
    /\ shutdown_result' = [shutdown_result EXCEPT !["adapter"] = IF ok THEN "ok" ELSE "failed"]
    /\ stop_pc' = "done"
    /\ shutdown_calls' = [shutdown_calls EXCEPT !["adapter"] = @ + 1]
    /\ late_calls' = late_calls + 1
    /\ pc' = CASE pc = "finally" -> "stopped"
            [] pc = "executor_finally" -> "exited"
            [] OTHER -> pc
    /\ UNCHANGED << is_running, stop_requested >>
    /\ stop_frame

\* the agent with strategies that return no signal, and stop() called on
\* it at any moment
StopNext ==
    \/ start
    \/ \E ok \in BOOLEAN : initialize_adapter(ok)
    \/ \E s \in StrategyNames : \E outcome \in InitOutcomes(s) : strategy_initialize(s, outcome)
    \/ begin_cycle(None)
    \/ skip_uninitialized
    \/ \E raises \in BOOLEAN : generate_signals([raises |-> raises, signals |-> << >>])
    \/ end_cycle
    \/ request_stop
    \/ loop_exit
    \/ \E s \in StrategyNames, ok \in BOOLEAN : strategy_shutdown(s, ok)
    \/ \E ok \in BOOLEAN : adapter_shutdown(ok)

\* a stop() call under way goes on: every shutdown() it awaits ends
StopSpec ==
    /\ AgentInit
    /\ [][StopNext]_vars
    /\ WF_vars(\E s \in StrategyNames, ok \in BOOLEAN : strategy_shutdown(s, ok))
    /\ WF_vars(\E ok \in BOOLEAN : adapter_shutdown(ok))

\* -------------------------------------------------------------- executor
\* the stop() of a finally clause starts: one whose frame is the caller's
StopBegins(position) ==
    /\ pc' = position
    /\ is_running' = FALSE
    /\ stop_pc' = "strategies"
    /\ shutdown_result' = [c \in StrategyNames \cup {"adapter"} |-> "pending"]
    /\ UNCHANGED << stop_requested, shutdown_calls, late_calls >>
    /\ UNCHANGED << strategies, is_initialized, init_result, agent_portfolio,
                    portfolio_for_strategies, cycle, gen_idx, all_signals, sig_idx, order_req,
                    available, gen_ret, observed, cycle_start, generated, raised,
                    position_active, notified, active_positions, strategy_configs >>
    /\ UNCHANGED adapter_vars

\* the loop of start() is left, by the CancelledError of a cancelled task at
\* one of its awaits or by an exception out of _run_cycle; start() catches
\* both, and its finally clause calls stop()
loop_ends(how) ==
    /\ pc \in {"loop", "generate"} /\ is_running
    /\ stop_pc = "idle"
    /\ loop_error' = IF how = "error" THEN Some("raised") ELSE loop_error
    /\ StopBegins("finally")

\* main(): start() has returned, early or after its own stop(), and the
\* finally clause of main calls stop()
executor_stop ==
    /\ pc \in {"returned", "stopped"}
    /\ stop_pc \in {"idle", "done"}
    /\ UNCHANGED loop_error
    /\ StopBegins("executor_finally")

\* main() of the executor: start() in a try whose finally calls stop()
ExecutorNext ==
    \/ start
    \/ \E ok \in BOOLEAN : initialize_adapter(ok)
    \/ \E s \in StrategyNames : \E outcome \in InitOutcomes(s) : strategy_initialize(s, outcome)
    \/ begin_cycle(None)
    \/ skip_uninitialized
    \/ \E raises \in BOOLEAN : generate_signals([raises |-> raises, signals |-> << >>])
    \/ end_cycle
    \/ \E how \in {"cancelled", "error"} : loop_ends(how)
    \/ executor_stop
    \/ \E s \in StrategyNames, ok \in BOOLEAN : strategy_shutdown(s, ok)
    \/ \E ok \in BOOLEAN : adapter_shutdown(ok)

ExecutorSpec == AgentInit /\ [][ExecutorNext]_vars

\* ------------------------------------------------------ _process_signals
\* the signals _process_signals may be handed: HOLD, and BUY and SELL with
\* and without quantity_absolute, quantity_percentage (50%, 100%) and price
TranslatorSignals(strategy_name, symbol) ==
    { TradingSignal(strategy_name, symbol, "HOLD", None, None, None) }
    \cup { TradingSignal(strategy_name, symbol, action, quantity_absolute,
                         quantity_percentage, price) :
             action \in {"BUY", "SELL"},
             quantity_absolute \in {None, Some(1)},
             quantity_percentage \in {None, Some(1), Some(PctDen)},
             price \in {None, Some(PriceUnit)} }

\* the agent entering _process_signals with one or two signals, on an
\* adapter whose portfolio holds cash or not and the asset or not, and
\* which has a reference price or not
TranslatorInit ==
    /\ adapter \in Adapters
    /\ markets = { [base |-> "BTC", quote |-> "USDT"] }
    /\ fill_probability \in FillProbabilities
    /\ cash_balance \in { InitialCash, [c \in Currencies |-> 0] }
    /\ asset_holdings \in { [c \in Currencies |-> IF c = "BTC" THEN q ELSE 0] : q \in {0, MaxQty} }
    /\ total_value = 0
    /\ open_orders = EmptyDict
    /\ trade_history = << >>
    /\ \E price \in {None, Some(PriceUnit)} :
          /\ current_sim_prices = [s \in Symbols |-> IF s \in markets THEN price ELSE None]
          /\ market_last = [s \in Symbols |-> IF s \in markets THEN price ELSE None]
    /\ uuid_counter = 0
    /\ ret = NoResult("init")
    /\ before = Ledger
    /\ pc = "process"
    /\ strategies = ConfiguredStrategies
    /\ is_running = TRUE
    /\ is_initialized = [s \in StrategyNames |-> s # "ma_crossover"]
    /\ init_result = [c \in StrategyNames \cup {"adapter"} |->
                         IF c = "ma_crossover" THEN "pending" ELSE "ok"]
    /\ agent_portfolio = "adapter"
    /\ portfolio_for_strategies = "adapter"
    /\ cycle = 1
    /\ gen_idx = Len(ConfiguredStrategies) + 1
    /\ \E symbol \in markets :
          all_signals \in { << first >> : first \in TranslatorSignals("strategy_a", symbol) }
                         \cup { << first, second >> :
                                   first \in TranslatorSignals("strategy_a", symbol),
                                   second \in Signals("strategy_b", symbol) }
    /\ sig_idx = 0
    /\ order_req = None
    /\ available = None
    /\ loop_error = None
    /\ gen_ret = None
    /\ observed = [s \in StrategyNames |-> None]
    /\ cycle_start = Some(Ledger)
    /\ generated = {"strategy_a", "strategy_b"}
    /\ raised = [s \in StrategyNames |-> {}]
    /\ stop_requested = FALSE
    /\ stop_pc = "idle"
    /\ shutdown_result = [c \in StrategyNames \cup {"adapter"} |-> "pending"]
    /\ position_active = [s \in StrategyNames |-> FALSE]
    /\ notified = {}
    /\ active_positions = [symbol \in TargetSymbolSet |-> FALSE]
    /\ shutdown_calls = [c \in StrategyNames \cup {"adapter"} |-> 0]
    /\ late_calls = 0
    /\ strategy_configs = ValidConfigs(strategies)

TranslatorNext ==
    \/ process_signal
    \/ \E r_fill \in RandomDraws, r_price \in RandomDraws : submit_order(r_fill, r_price)
    \/ end_cycle
    \/ stop_after_error

TranslatorSpec == TranslatorInit /\ [][TranslatorNext]_vars

\* ======================================================================
\* The adapter with every operation of its interface, and requests that
\* carry a client_order_id
\* ======================================================================
\* get_open_orders(symbol): the open orders, those of the symbol when one
\* is given
OpenOrders(symbol) ==
    { open_orders[id] : id \in { i \in DOMAIN open_orders :
                                    ~IsSome(symbol) \/ open_orders[i].symbol = Val(symbol) } }

get_open_orders(symbol) ==
    /\ ret' = Result("get_open_orders", "list", Some(OpenOrders(symbol)), None, None, None, None)
    /\ UNCHANGED << adapter, markets, fill_probability, cash_balance, asset_holdings, total_value,
                    open_orders, trade_history, current_sim_prices, market_last, uuid_counter >>

\* get_account_balance(): stamps last_updated and returns self.portfolio
get_account_balance ==
    /\ ret' = Result("get_account_balance", "portfolio", None, None, None, None, None)
    /\ UNCHANGED << adapter, markets, fill_probability, cash_balance, asset_holdings, total_value,
                    open_orders, trade_history, current_sim_prices, market_last, uuid_counter >>

\* a call of get_current_price(symbol)
get_current_price_call(symbol) ==
    /\ ret' = Result("get_current_price",
                     IF IsSome(get_current_price(symbol)) THEN "price" ELSE "None",
                     None, None, None, get_current_price(symbol), None)
    /\ UNCHANGED << adapter, markets, fill_probability, cash_balance, asset_holdings, total_value,
                    open_orders, trade_history, current_sim_prices, market_last, uuid_counter >>

\* the requests of this specification: one unit, with or without a
\* client_order_id
BookRequests == { r \in OrderRequests(markets, ClientIds) : r.quantity = 1 }

BookInit ==
    /\ Init
    /\ markets = { [base |-> "BTC", quote |-> "USDT"] }
    /\ fill_probability = 4

BookNext ==
    \/ \E request \in BookRequests, r_fill \in RandomDraws, r_price \in RandomDraws :
          create_order(request, r_fill, r_price) /\ Direct
    \/ \E order_id \in OrderIds : cancel_order(order_id) /\ Direct
    \/ \E order_id \in OrderIds : get_order_status(order_id) /\ Direct
    \/ \E symbol \in {None} \cup { Some(m) : m \in markets } : get_open_orders(symbol) /\ Direct
    \/ get_account_balance /\ Direct
    \/ \E symbol \in markets : get_current_price_call(symbol) /\ Direct
    \/ \E symbol \in markets, price \in RefPrices : update_price(symbol, price) /\ Direct
    \/ \E symbol \in markets, last \in {None} \cup { Some(p) : p \in RefPrices } :
          MarketTick(symbol, last) /\ Direct
    \/ shutdown /\ Direct

BookSpec == BookInit /\ [][BookNext]_vars

\* ======================================================================
\* create_order statement by statement, among the other tasks of the
\* event loop
\* ======================================================================
\* Suspended with every statement of create_order a point where the event
\* loop may run another task
Suspended_AtEveryStatement(position) == TRUE

\* The task that calls create_order is suspended, and the event loop may
\* run another task or deliver a cancellation, only where it awaits
\* something that does not complete at once: between its adapter calls.
\* The statements of the settlement have no await between them, and
\* get_current_price, awaited by the revaluation, never suspends.
Suspended(position) == position = "await"

\* the frame of the steps of a create_order call
settle_frame ==
    UNCHANGED << strategies, is_running, is_initialized, init_result, agent_portfolio,
                 portfolio_for_strategies, cycle, gen_idx, all_signals, sig_idx, order_req,
                 available, loop_error, gen_ret, observed, cycle_start, generated, raised,
                 stop_pc, shutdown_result, position_active, notified, active_positions, strategy_configs, shutdown_calls, late_calls >>

\* the n-th of the three portfolio updates of a settlement: for a BUY
\* update_cash(-cost), update_cash(-commission), update_asset(+quantity);
\* for a SELL update_asset(-quantity), update_cash(+proceeds),
\* update_cash(-commission)
SettlementLeg(request, n, cash, assets, cost_or_proceeds, commission) ==
    IF request.action = "BUY"
    THEN CASE n = 1 -> [cash |-> update_cash(cash, request.symbol.quote, -cost_or_proceeds),
                        assets |-> assets]
           [] n = 2 -> [cash |-> update_cash(cash, request.symbol.quote, -commission),
                        assets |-> assets]
           [] n = 3 -> [cash |-> cash,
                        assets |-> update_asset(assets, request.symbol.base, request.quantity)]
    ELSE CASE n = 1 -> [cash |-> cash,
                        assets |-> update_asset(assets, request.symbol.base, -request.quantity)]
           [] n = 2 -> [cash |-> update_cash(cash, request.symbol.quote, cost_or_proceeds),
                        assets |-> assets]
           [] n = 3 -> [cash |-> update_cash(cash, request.symbol.quote, -commission),
                        assets |-> assets]

\* create_order from its entry to the funds check, for a request that
\* reaches the settlement with sufficient funds
settle_begin(request, r_fill, r_price) ==
    /\ pc = "await"
    /\ uuid_counter < MaxOrders
    /\ ~NonFill(r_fill)
    /\ LET sim_price == SimPrice(request.symbol, r_price)
           execution_price == ExecutionPrice(request, sim_price)
           cost_or_proceeds == Times(request.quantity, execution_price)
           commission == Fraction(cost_or_proceeds, CommissionNum)
       IN /\ ~RestsOpen(request, sim_price)
          /\ ~InsufficientFunds(request, cost_or_proceeds, commission)
          /\ ret' = Result("create_order", "settling", None, Some(request), None,
                           Some(sim_price),
                           Some([ execution_price |-> execution_price,
                                  cost |-> cost_or_proceeds, commission |-> commission ]))
    /\ uuid_counter' = uuid_counter + 1
    /\ pc' = "leg_1"
    /\ Called
    /\ UNCHANGED << adapter_config, adapter_books, adapter_prices, adapter_ledger,
                    stop_requested >>
    /\ settle_frame

\* one portfolio update of the settlement
settle_leg ==
    /\ pc \in {"leg_1", "leg_2", "leg_3"}
    /\ LET n == CASE pc = "leg_1" -> 1 [] pc = "leg_2" -> 2 [] pc = "leg_3" -> 3
           leg == SettlementLeg(Val(ret.request), n, cash_balance, asset_holdings,
                                Val(ret.settlement).cost, Val(ret.settlement).commission)
       IN /\ cash_balance' = leg.cash
          /\ asset_holdings' = leg.assets
          /\ pc' = CASE n = 1 -> "leg_2" [] n = 2 -> "leg_3" [] n = 3 -> "record"
    /\ UNCHANGED << adapter_config, adapter_books, adapter_calls, adapter_prices, total_value,
                    stop_requested >>
    /\ settle_frame

\* the end of create_order: the revaluation, the FILLED order appended to
\* the trade history and returned
settle_record ==
    /\ pc = "record"
    /\ LET request == Val(ret.request)
           executed_order == ExecutedOrder(NewOrderId(request, "mock", uuid_counter), request,
                                           Val(ret.settlement).execution_price,
                                           Some(Val(ret.settlement).commission), "FILLED",
                                           ret.sim_price)
       IN /\ total_value' = RevaluedTotal(cash_balance, asset_holdings)
          /\ trade_history' = Append(trade_history, executed_order)
          /\ ret' = Result("create_order", "FILLED", Some(executed_order), Some(request),
                           None, ret.sim_price, ret.settlement)
    /\ pc' = "await"
    /\ UNCHANGED << adapter_config, adapter_prices, cash_balance, asset_holdings, open_orders,
                    uuid_counter, before, stop_requested >>
    /\ settle_frame

\* a create_order call that ends without a settlement
create_order_unsettled(request, r_fill, r_price) ==
    /\ pc = "await"
    /\ create_order(request, r_fill, r_price)
    /\ ret'.outcome # "FILLED"
    /\ Direct

\* another task, or a callback of this one, reads the portfolio
observe_balance ==
    /\ Suspended(pc)
    /\ get_account_balance
    /\ Direct

\* another task sets a price
set_price(symbol, price) ==
    /\ Suspended(pc)
    /\ update_price(symbol, price)
    /\ Direct

\* the market data source has a new last price when the adapter next asks
market_moves(symbol, last) ==
    /\ Suspended(pc)
    /\ MarketTick(symbol, last)
    /\ Direct

\* the stop request: the task of start() is cancelled, CancelledError being
\* raised in it where it is suspended
cancel_task ==
    /\ Suspended(pc)
    /\ pc # "cancelled"
    /\ pc' = "cancelled"
    /\ stop_requested' = TRUE
    /\ UNCHANGED adapter_vars
    /\ settle_frame

\* the running agent between two adapter calls
SettleInit ==
    /\ AdapterConstructed
    /\ markets = { [base |-> "BTC", quote |-> "USDT"] }
    /\ fill_probability = 4
    /\ pc = "await"
    /\ strategies = << >>
    /\ is_running = TRUE
    /\ is_initialized = [s \in StrategyNames |-> FALSE]
    /\ init_result = [c \in StrategyNames \cup {"adapter"} |->
                         IF c = "adapter" THEN "ok" ELSE "pending"]
    /\ agent_portfolio = "adapter"
    /\ portfolio_for_strategies = "adapter"
    /\ cycle = 1
    /\ gen_idx = 0
    /\ all_signals = << >>
    /\ sig_idx = 0
    /\ order_req = None
    /\ available = None
    /\ loop_error = None
    /\ gen_ret = None
    /\ observed = [s \in StrategyNames |-> None]
    /\ cycle_start = None
    /\ generated = {}
    /\ raised = [s \in StrategyNames |-> {}]
    /\ stop_requested = FALSE
    /\ stop_pc = "idle"
    /\ shutdown_result = [c \in StrategyNames \cup {"adapter"} |-> "pending"]
    /\ position_active = [s \in StrategyNames |-> FALSE]
    /\ notified = {}
    /\ active_positions = [symbol \in TargetSymbolSet |-> FALSE]
    /\ shutdown_calls = [c \in StrategyNames \cup {"adapter"} |-> 0]
    /\ late_calls = 0
    /\ strategy_configs = ValidConfigs(strategies)

SettleNext ==
    \/ \E request \in OrderRequests(markets, {}), r_fill \in RandomDraws, r_price \in RandomDraws :
          settle_begin(request, r_fill, r_price)
    \/ settle_leg
    \/ settle_record
    \/ \E request \in OrderRequests(markets, {}), r_fill \in RandomDraws, r_price \in RandomDraws :
          create_order_unsettled(request, r_fill, r_price)
    \/ observe_balance
    \/ \E symbol \in markets, price \in RefPrices : set_price(symbol, price)
    \/ \E symbol \in markets, last \in {None} \cup { Some(p) : p \in RefPrices } :
          market_moves(symbol, last)
    \/ cancel_task

SettleSpec == SettleInit /\ [][SettleNext]_vars

\* ======================================================================
\* SentimentLLMStrategy (agent/strategies/ai_based/sentiment_llm_strategy.py)
\* ======================================================================
\* sentiment_threshold_buy (0.6) and sentiment_threshold_sell (-0.4) in
\* tenths; trade_quantity_percentage in units of 1 / PctDen
ScoreDen == 10
SentimentThresholdBuy == 6
SentimentThresholdSell == -4
TradeQuantityPercentage == 1

\* what SentimentAnalyzer.analyze_sentiment classifies an article as
Classifications == {"Positive", "Negative", "Neutral", "Uncertain"}

\* the relevant recent articles of a symbol, each given by its classification
RECURSIVE ArticleLists(_)
ArticleLists(n) ==
    IF n = 0 THEN { << >> }
    ELSE ArticleLists(n - 1)
         \cup { Append(l, c) : l \in { x \in ArticleLists(n - 1) : Len(x) = n - 1 },
                               c \in Classifications }

\* sentiment_to_trading_signal(sentiment)
sentiment_to_trading_signal(sentiment) ==
    IF sentiment = "Positive" THEN 1
    ELSE IF sentiment = "Negative" THEN -1
    ELSE 0

\* convert.get(sentiment_result) of _analyze_sentiment_for_symbol
convert_get(sentiment_result) ==
    CASE sentiment_result = "Positive" -> Some(1)
      [] sentiment_result = "Negative" -> Some(-1)
      [] sentiment_result = "Neutral" -> Some(0)
      [] OTHER -> None

\* total_score and valid_analyses after the loop over the articles
RECURSIVE total_score(_)
total_score(results) ==
    IF results = << >> THEN 0
    ELSE (IF IsSome(convert_get(Head(results))) THEN Val(convert_get(Head(results))) ELSE 0)
         + total_score(Tail(results))

RECURSIVE valid_analyses(_)
valid_analyses(results) ==
    IF results = << >> THEN 0
    ELSE (IF IsSome(convert_get(Head(results))) THEN 1 ELSE 0) + valid_analyses(Tail(results))

\* _analyze_sentiment_for_symbol: the score, as the fraction num / den
_analyze_sentiment_for_symbol(has_analyzer, results) ==
    IF ~has_analyzer \/ results = << >> THEN [num |-> 0, den |-> 1]
    ELSE IF valid_analyses(results) = 0 THEN [num |-> 0, den |-> 1]
    ELSE [num |-> total_score(results), den |-> valid_analyses(results)]

\* score > tenths / 10, score < tenths / 10
Above(score, tenths) == score.num * ScoreDen > tenths * score.den
Below(score, tenths) == score.num * ScoreDen < tenths * score.den

\* dict.get(key, 0)
Holding(d, key) == IF key \in DOMAIN d THEN d[key] ELSE 0

\* SentimentAction selling whenever the score is low and the asset is held
SentimentAction_SellsWithoutPosition(articles, score, active, portfolio, symbol_base) ==
    IF articles = << >> THEN "HOLD"
    ELSE IF Above(score, SentimentThresholdBuy)
    THEN IF ~active /\ Holding(portfolio.cash, QuoteCurrency) > 0 THEN "BUY" ELSE "HOLD"
    ELSE IF Below(score, SentimentThresholdSell)
         THEN IF Holding(portfolio.assets, symbol_base) > 0 THEN "SELL" ELSE "HOLD"
         ELSE "HOLD"

\* the action generate_signals decides for one target symbol
SentimentAction(articles, score, active, portfolio, symbol_base) ==
    IF articles = << >> THEN "HOLD"
    ELSE IF Above(score, SentimentThresholdBuy)
    THEN IF ~active /\ Holding(portfolio.cash, QuoteCurrency) > 0 THEN "BUY" ELSE "HOLD"
    ELSE IF Below(score, SentimentThresholdSell)
         THEN IF active /\ Holding(portfolio.assets, symbol_base) > 0 THEN "SELL" ELSE "HOLD"
         ELSE "HOLD"

\* active_positions[symbol_base] after the decision: set by a BUY, cleared
\* by a SELL, and cleared when the score is low and nothing is held
SentimentPosition(articles, score, active, portfolio, symbol_base) ==
    LET action == SentimentAction(articles, score, active, portfolio, symbol_base)
    IN IF action = "BUY" THEN TRUE
       ELSE IF action = "SELL" THEN FALSE
       ELSE IF /\ articles # << >>
               /\ ~Above(score, SentimentThresholdBuy)
               /\ Below(score, SentimentThresholdSell)
               /\ active
            THEN FALSE
            ELSE active

\* the signal appended for one target symbol
SentimentSignal(strategy_name, articles, score, current_price, active, portfolio, symbol_base) ==
    LET action == SentimentAction(articles, score, active, portfolio, symbol_base)
        trading_pair == [base |-> symbol_base, quote |-> QuoteCurrency]
    IN IF action = "HOLD"
       THEN TradingSignal(strategy_name, trading_pair, "HOLD", None, None, None)
       ELSE TradingSignal(strategy_name, trading_pair, action, None,
                          IF action = "BUY" THEN Some(TradeQuantityPercentage) ELSE Some(PctDen),
                          current_price)

\* SentimentLLMStrategy.generate_signals(portfolio): no signal without an
\* analyzer, else one signal for each target symbol, in their order
SentimentSignals(strategy_name, has_analyzer, news, current_price, active, portfolio) ==
    IF ~has_analyzer THEN << >>
    ELSE [ i \in 1..Len(TargetSymbols) |->
             SentimentSignal(strategy_name, news[TargetSymbols[i]],
                             _analyze_sentiment_for_symbol(has_analyzer, news[TargetSymbols[i]]),
                             current_price, active[TargetSymbols[i]], portfolio,
                             TargetSymbols[i]) ]

\* SentimentLLMStrategy.on_order_update(executed_order)
SentimentOnOrderUpdate(active, order) ==
    IF order.symbol.base \in TargetSymbolSet /\ order.status = "FILLED"
    THEN [active EXCEPT ![order.symbol.base] = (order.action = "BUY")]
    ELSE active

\* the frame of the strategy's steps
sentiment_frame ==
    UNCHANGED << pc, strategies, is_running, is_initialized, init_result, agent_portfolio,
                 portfolio_for_strategies, cycle, gen_idx, all_signals, sig_idx, order_req,
                 available, loop_error, observed, cycle_start, generated, raised,
                 stop_requested, stop_pc, shutdown_result, position_active, notified,
                 strategy_configs, shutdown_calls, late_calls >>

\* one generate_signals call on the adapter's portfolio; raises: fetching
\* the news failed.  news gives the articles found for each target symbol.
sentiment_generate_signals(has_analyzer, raises, news, current_price) ==
    LET scores == [ b \in TargetSymbolSet |->
                      _analyze_sentiment_for_symbol(has_analyzer, news[b]) ]
        returns == has_analyzer /\ ~raises
    IN /\ gen_ret' = Some([ strategy |-> "sentiment_llm", has_analyzer |-> has_analyzer,
                            raises |-> has_analyzer /\ raises, news |-> news,
                            active |-> active_positions, balances |-> Ledger,
                            scores |-> scores,
                            signals |-> IF returns
                                        THEN SentimentSignals("sentiment_llm", has_analyzer, news,
                                                              current_price, active_positions,
                                                              Ledger)
                                        ELSE << >> ])
       /\ active_positions' =
             IF returns
             THEN [ b \in TargetSymbolSet |->
                      SentimentPosition(news[b], scores[b], active_positions[b], Ledger, b) ]
             ELSE active_positions
       /\ UNCHANGED adapter_vars
       /\ sentiment_frame

\* the strategy is told of an order
sentiment_on_order_update(order) ==
    /\ active_positions' = SentimentOnOrderUpdate(active_positions, order)
    /\ UNCHANGED adapter_vars
    /\ UNCHANGED gen_ret
    /\ sentiment_frame

\* the articles found in one cycle: up to MaxArticles for the first target
\* symbol, at most one for each other
NewsInputs ==
    { [b \in TargetSymbolSet |-> IF b = TargetSymbols[1] THEN first ELSE other] :
        first \in ArticleLists(MaxArticles), other \in ArticleLists(1) }

\* the orders the strategy is told of: of one unit of a target symbol,
\* FILLED or REJECTED
SentimentOrders ==
    { ExecutedOrder([kind |-> "mock", n |-> 1],
                    [symbol |-> [base |-> b, quote |-> QuoteCurrency], action |-> a,
                     order_type |-> "MARKET", quantity |-> 1, price |-> None,
                     client_order_id |-> None],
                    PriceUnit, Some(0), status, Some(PriceUnit)) :
        b \in TargetSymbolSet, a \in {"BUY", "SELL"}, status \in {"FILLED", "REJECTED"} }

\* the strategy alone, on the portfolio of an adapter: cash and no holding,
\* cash and a holding of each target symbol, or no cash and a holding of
\* the first
SentimentInit ==
    /\ AgentConstructed(<< >>)
    /\ strategy_configs = << >>
    /\ adapter = "MockExchangeAdapter"
    /\ markets = { [base |-> "BTC", quote |-> QuoteCurrency] }
    /\ fill_probability = 4
    /\ \E initial \in
          { << InitialCash, [c \in Currencies |-> 0] >>,
            << InitialCash, [c \in Currencies \cup TargetSymbolSet |->
                                IF c \in TargetSymbolSet THEN 1 ELSE 0] >>,
            << [c \in Currencies |-> 0], [c \in Currencies |-> IF c = "BTC" THEN 1 ELSE 0] >> } :
          cash_balance = initial[1] /\ asset_holdings = initial[2]
    /\ total_value = 0
    /\ open_orders = EmptyDict
    /\ trade_history = << >>
    /\ current_sim_prices = [s \in Symbols |-> None]
    /\ market_last = [s \in Symbols |-> None]
    /\ uuid_counter = 0
    /\ ret = NoResult("init")
    /\ before = Ledger

SentimentNext ==
    \/ \E news \in NewsInputs, current_price \in {None, Some(PriceUnit)} :
          sentiment_generate_signals(TRUE, FALSE, news, current_price)
    \/ \E has_analyzer \in BOOLEAN :
          sentiment_generate_signals(has_analyzer, has_analyzer,
                                     [b \in TargetSymbolSet |-> << >>], None)
    \/ \E order \in SentimentOrders : sentiment_on_order_update(order)

SentimentSpec == SentimentInit /\ [][SentimentNext]_vars

\* ======================================================================
\* Properties
\* ======================================================================

\* the step just taken was a create_order call / a cancel_order call
CreateStep == ret'.op = "create_order"
CancelStep == ret'.op = "cancel_order"
LedgerUnchanged == UNCHANGED << cash_balance, asset_holdings >>
BooksUnchanged == UNCHANGED << open_orders, trade_history >>

\* the FILLED orders of the trade history, and what each moved
RECURSIVE SumSeq(_, _)
SumSeq(f, n) == IF n = 0 THEN 0 ELSE f[n] + SumSeq(f, n - 1)

OrderCost(o) == Times(o.quantity, o.price)

CashMoved(o, currency) ==
    IF o.status # "FILLED" \/ o.symbol.quote # currency THEN 0
    ELSE IF o.action = "BUY" THEN -(OrderCost(o) + Val(o.fee))
         ELSE OrderCost(o) - Val(o.fee)

AssetMoved(o, asset) ==
    IF o.status # "FILLED" \/ o.symbol.base # asset THEN 0
    ELSE IF o.action = "BUY" THEN o.quantity ELSE -o.quantity

\* C1: after any sequence of create_order and cancel_order calls, every
\* entry of cash_balance and asset_holdings is >= 0.
C1_BalancesNonNegative ==
    \A c \in Currencies : cash_balance[c] >= 0 /\ asset_holdings[c] >= 0

\* C2: the portfolio changes only through FILLED orders and by exactly
\* their amounts: the cash of each currency is the initial cash minus
\* cost + commission of every FILLED BUY quoted in it plus cost - commission
\* of every FILLED SELL; the holding of each asset is the sum of the
\* quantities bought minus the quantities sold; each commission is
\* cost * commission_rate, with cost = quantity * execution price.
C2_Conservation ==
    /\ \A c \in Currencies :
          /\ cash_balance[c] = InitialCash[c]
                + SumSeq([i \in 1..Len(trade_history) |-> CashMoved(trade_history[i], c)],
                         Len(trade_history))
          /\ asset_holdings[c] =
                SumSeq([i \in 1..Len(trade_history) |-> AssetMoved(trade_history[i], c)],
                       Len(trade_history))
    /\ \A i \in 1..Len(trade_history) :
          trade_history[i].status = "FILLED"
            => Val(trade_history[i].fee) = Fraction(OrderCost(trade_history[i]), CommissionNum)

\* a FILLED BUY followed by a FILLED SELL
C2_Witness ==
    \E i, j \in 1..Len(trade_history) :
        /\ i < j
        /\ trade_history[i].status = "FILLED" /\ trade_history[i].action = "BUY"
        /\ trade_history[j].status = "FILLED" /\ trade_history[j].action = "SELL"

\* the sufficiency check of the settlement step as C3 states it, on the
\* balances before the call
ShortOfFunds(request, settlement) ==
    IF request.action = "BUY"
    THEN cash_balance[request.symbol.quote] < settlement.cost + settlement.commission
    ELSE asset_holdings[request.symbol.base] < request.quantity

\* C3: when create_order reaches settlement and the sufficiency check fails
\* (BUY: cash_balance[quote] < cost + commission; SELL: asset_holdings[base]
\* < quantity), it raises InsufficientFundsError and the portfolio, the
\* open-orders index and the trade history are as before the call.
C3_InsufficientFundsNoMutation ==
    [][ (CreateStep /\ IsSome(ret'.settlement)
           /\ ShortOfFunds(Val(ret'.request), Val(ret'.settlement)))
        => (ret'.outcome = "InsufficientFundsError" /\ LedgerUnchanged /\ BooksUnchanged) ]_vars

\* C4: cancel_order with an order id that is not in the open-orders index
\* returns False and leaves the portfolio, the open-orders index and the
\* trade history unchanged.
C4_CancelMissIsNoOp ==
    [][ (CancelStep /\ Val(ret'.order_id) \notin DOMAIN open_orders)
        => (ret'.outcome = "False" /\ LedgerUnchanged /\ BooksUnchanged
              /\ UNCHANGED total_value) ]_vars

\* a second cancel of an id that was already canceled has returned False
C4_Witness ==
    /\ ret.op = "cancel_order" /\ ret.outcome = "False"
    /\ \E i \in 1..Len(trade_history) :
          /\ trade_history[i].order_id = Val(ret.order_id)
          /\ trade_history[i].status = "CANCELED"

\* the request of the create_order step just taken
StepRequest == Val(ret'.request)
StepIsLimit(action) ==
    /\ CreateStep /\ ret'.outcome # "REJECTED"
    /\ StepRequest.order_type = "LIMIT" /\ StepRequest.action = action

Crosses(request, p) ==
    IF request.action = "BUY" THEN p <= Val(request.price) ELSE p >= Val(request.price)

\* C6 as stated: a LIMIT order that crosses the reference price (the value
\* of get_current_price) at submission settles at the limit price; a LIMIT
\* SELL with reference < limit price rests OPEN.
C6_Original ==
    [][ \A action \in {"BUY", "SELL"} :
          (StepIsLimit(action) /\ IsSome(get_current_price(StepRequest.symbol)))
          => IF Crosses(StepRequest, Val(get_current_price(StepRequest.symbol)))
             THEN /\ IsSome(ret'.settlement)
                  /\ Val(ret'.settlement).execution_price = Val(StepRequest.price)
             ELSE ret'.outcome = "OPEN" ]_vars

\* C6 amended: a LIMIT order that passes the non-fill roll and crosses the
\* price create_order resolves for the call (sim_price) goes to settlement
\* at the limit price: cost = quantity * limit price, no slippage, and a
\* FILLED order carries the limit price; a LIMIT order that does not cross
\* sim_price rests OPEN.
C6_LimitSettlesAtLimitPrice ==
    [][ \A action \in {"BUY", "SELL"} :
          StepIsLimit(action)
          => IF Crosses(StepRequest, Val(ret'.sim_price))
             THEN /\ IsSome(ret'.settlement)
                  /\ Val(ret'.settlement).execution_price = Val(StepRequest.price)
                  /\ Val(ret'.settlement).cost
                        = Times(StepRequest.quantity, Val(StepRequest.price))
                  /\ ret'.outcome \in {"FILLED", "InsufficientFundsError"}
                  /\ ret'.outcome = "FILLED"
                        => Val(ret'.order).price = Val(StepRequest.price)
             ELSE ret'.outcome = "OPEN" ]_vars

\* a LIMIT order was FILLED at its limit price, which is not the price
\* resolved for the call
C6_Witness ==
    /\ ret.op = "create_order" /\ ret.outcome = "FILLED"
    /\ Val(ret.request).order_type = "LIMIT"
    /\ Val(ret.order).price = Val(Val(ret.request).price)
    /\ Val(ret.order).price # Val(ret.sim_price)

\* C7: creating an order that rests OPEN, and canceling it, moves no funds:
\* the create_order step that returns OPEN and the cancel_order step that
\* returns True leave the cash and asset balances as they were.
C7_RestAndCancelMoveNoFunds ==
    [][ ((CreateStep /\ ret'.outcome = "OPEN") \/ (CancelStep /\ ret'.outcome = "True"))
        => (LedgerUnchanged /\ UNCHANGED total_value) ]_vars

\* an order was placed OPEN and then canceled, and the balances are the
\* ones the run started with
C7_Witness ==
    /\ ret.op = "cancel_order" /\ ret.outcome = "True"
    /\ cash_balance = InitialCash
    /\ \A c \in Currencies : asset_holdings[c] = 0
    /\ \E i \in 1..Len(trade_history) :
          /\ trade_history[i].order_id = Val(ret.order_id)
          /\ trade_history[i].status = "CANCELED"

\* C8: when the drawn r is greater than fill_probability, create_order
\* returns a REJECTED order without raising, whatever the request and the
\* balances, and the portfolio, the open-orders index and the trade
\* history are unchanged.
C8_NonFillRejectsBeforeAnythingElse ==
    [][ CreateStep =>
          \A r_fill \in RandomDraws, r_price \in RandomDraws :
            (r_fill > fill_probability /\ create_order(StepRequest, r_fill, r_price))
            => /\ ret'.outcome = "REJECTED"
               /\ IsSome(ret'.order) /\ Val(ret'.order).status = "REJECTED"
               /\ LedgerUnchanged /\ BooksUnchanged /\ UNCHANGED total_value ]_vars

\* a SELL of more than the holding was REJECTED by the roll (it would have
\* raised InsufficientFundsError in the settlement step)
C8_Witness ==
    /\ ret.op = "create_order" /\ ret.outcome = "REJECTED"
    /\ Val(ret.request).action = "SELL"
    /\ Val(ret.request).order_type = "MARKET"
    /\ asset_holdings[Val(ret.request).symbol.base] < Val(ret.request).quantity

\* C9: with fill_probability = 0.0 every create_order returns REJECTED and
\* the portfolio is unchanged, for every value of the random draw.
C9_ZeroFillProbabilityRejectsAll ==
    (fill_probability = 0 /\ ret.op = "create_order")
      => /\ ret.outcome = "REJECTED"
         /\ cash_balance = InitialCash
         /\ \A c \in Currencies : asset_holdings[c] = 0

\* C10: every order create_order returns is recorded: FILLED or REJECTED in
\* the trade history, OPEN in the open-orders index, so get_order_status
\* finds its id.
C10_ReturnedOrdersAreRecorded ==
    (ret.op = "create_order" /\ IsSome(ret.order))
      => /\ Val(ret.order).status \in {"FILLED", "REJECTED"}
              => \E i \in 1..Len(trade_history) : trade_history[i] = Val(ret.order)
         /\ Val(ret.order).status = "OPEN"
              => /\ Val(ret.order).order_id \in DOMAIN open_orders
                 /\ open_orders[Val(ret.order).order_id] = Val(ret.order)
         /\ IsSome(OrderStatus(Val(ret.order).order_id))

StepIsFilledMarket(action) ==
    /\ CreateStep /\ ret'.outcome = "FILLED"
    /\ StepRequest.order_type = "MARKET" /\ StepRequest.action = action

\* reference * (1 + slippage) for BUY, reference * (1 - slippage) for SELL
WithSlippage(action, reference) ==
    IF action = "BUY"
    THEN (reference * (RateDen + SlippageNum)) \div RateDen
    ELSE (reference * (RateDen - SlippageNum)) \div RateDen

\* C12 as stated: a FILLED MARKET order executes at reference * (1 +-
\* slippage), the reference being the value get_current_price returns.
C12_Original ==
    [][ \A action \in {"BUY", "SELL"} :
          (StepIsFilledMarket(action) /\ IsSome(get_current_price(StepRequest.symbol)))
          => Val(ret'.order).price
               = WithSlippage(action, Val(get_current_price(StepRequest.symbol))) ]_vars

\* C12 amended: a FILLED MARKET order executes at sim_price * (1 + slippage)
\* for BUY and sim_price * (1 - slippage) for SELL, sim_price being the price
\* create_order resolves for the call; cost = quantity * execution price,
\* commission = cost * commission_rate; a BUY leaves cash - cost - commission
\* and holding + quantity, a SELL cash + cost - commission and holding -
\* quantity.  In MockExchangeAdapterWithRealtimeData with a price known,
\* sim_price is the value of get_current_price.
C12_MarketExecutesAtSimPriceWithSlippage ==
    [][ \A action \in {"BUY", "SELL"} :
          StepIsFilledMarket(action)
          => LET o == Val(ret'.order)
                 cost == Times(o.quantity, o.price)
                 commission == (cost * CommissionNum) \div RateDen
                 quote == o.symbol.quote
                 base == o.symbol.base
                 sign == IF action = "BUY" THEN 1 ELSE -1
             IN /\ o.price = WithSlippage(action, Val(ret'.sim_price))
                /\ Val(o.fee) = commission
                /\ IF base = quote
                   THEN cash_balance'[quote] = cash_balance[quote] - sign * cost - commission
                          /\ asset_holdings'[base] = asset_holdings[base] + sign * o.quantity
                   ELSE /\ cash_balance'[quote] = cash_balance[quote] - sign * cost - commission
                        /\ asset_holdings'[base] = asset_holdings[base] + sign * o.quantity
                        /\ cash_balance'[base] = cash_balance[base]
                        /\ asset_holdings'[quote] = asset_holdings[quote]
                /\ (adapter = "MockExchangeAdapterWithRealtimeData"
                      /\ IsSome(market_last[o.symbol]))
                     => Val(ret'.sim_price) = Val(get_current_price(o.symbol)) ]_vars

\* a MARKET BUY was FILLED above the reference price and a MARKET SELL
\* below it
C12_Witness ==
    /\ ret.op = "create_order" /\ ret.outcome = "FILLED"
    /\ Val(ret.request).order_type = "MARKET" /\ Val(ret.request).action = "SELL"
    /\ Val(ret.order).price < Val(ret.sim_price)
    /\ \E i \in 1..Len(trade_history) :
          /\ trade_history[i].status = "FILLED" /\ trade_history[i].action = "BUY"
          /\ trade_history[i].order_type = "MARKET"
          /\ trade_history[i].price > Val(trade_history[i].simulated_market_price_at_trade)

\* the last call was a FILLED BUY and the step just taken is a FILLED SELL
\* of the same quantity of the same symbol: nothing happened in between, so
\* the reference price is the one of the BUY
RoundTripStep ==
    /\ ret.op = "create_order" /\ ret.outcome = "FILLED"
    /\ Val(ret.request).action = "BUY"
    /\ CreateStep /\ ret'.outcome = "FILLED"
    /\ StepRequest.action = "SELL"
    /\ StepRequest.symbol = Val(ret.request).symbol
    /\ StepRequest.quantity = Val(ret.request).quantity

\* the balances before the BUY of a round trip: the ones the last call
\* started from
PreTradeCash == before.cash[Val(ret.request).symbol.quote]
PreTradeHolding == before.assets[Val(ret.request).symbol.base]

\* C13: after a FILLED BUY immediately followed by a FILLED SELL of the same
\* quantity of the same symbol, the base-asset holding is the one before the
\* BUY and the quote cash is strictly below the cash before the BUY.
C13_RoundTripBalances ==
    [][ RoundTripStep
        => /\ asset_holdings'[StepRequest.symbol.base] = PreTradeHolding
           /\ cash_balance'[StepRequest.symbol.quote] < PreTradeCash ]_vars

\* a BUY and then a SELL of the same quantity were FILLED from the initial
\* balances, and the holding is back to zero
C13_Witness ==
    /\ Len(trade_history) = 2 /\ uuid_counter = 2
    /\ trade_history[1].status = "FILLED" /\ trade_history[1].action = "BUY"
    /\ trade_history[2].status = "FILLED" /\ trade_history[2].action = "SELL"
    /\ trade_history[1].quantity = trade_history[2].quantity
    /\ trade_history[1].symbol.base # trade_history[1].symbol.quote
    /\ asset_holdings[trade_history[1].symbol.base] = 0
    /\ cash_balance[trade_history[1].symbol.quote] < InitialCash[trade_history[1].symbol.quote]

\* C14 as stated: after the round trip the quote cash is the cash before the
\* BUY minus the two commissions and nothing else.
C14_Original ==
    [][ RoundTripStep
        => cash_balance'[StepRequest.symbol.quote]
             = PreTradeCash - Val(ret.settlement).commission
                            - Val(ret'.settlement).commission ]_vars

\* C14 amended: after the round trip the quote cash is the cash before the
\* BUY minus the two commissions and minus the difference between the cost
\* of the BUY and the proceeds of the SELL; when both legs execute at the
\* same price (LIMIT orders at one limit price) the difference is zero, the
\* two commissions are equal and the cash is exactly the cash before the BUY
\* minus 2 x commission; when both are MARKET orders in
\* MockExchangeAdapterWithRealtimeData the difference is
\* 2 x slippage x quantity x reference price.
C14_RoundTripAmount ==
    [][ RoundTripStep
        => LET buy == Val(ret.settlement)
               sell == Val(ret'.settlement)
           IN /\ cash_balance'[StepRequest.symbol.quote]
                   = PreTradeCash - (buy.cost - sell.cost) - buy.commission - sell.commission
              /\ buy.execution_price = sell.execution_price
                   => /\ buy.commission = sell.commission
                      /\ cash_balance'[StepRequest.symbol.quote]
                           = PreTradeCash - 2 * buy.commission
              /\ (StepRequest.order_type = "LIMIT" /\ Val(ret.request).order_type = "LIMIT"
                    /\ StepRequest.price = Val(ret.request).price)
                   => buy.execution_price = sell.execution_price
              /\ (StepRequest.order_type = "MARKET" /\ Val(ret.request).order_type = "MARKET"
                    /\ adapter = "MockExchangeAdapterWithRealtimeData")
                   => buy.cost - sell.cost
                        = 2 * Fraction(Times(StepRequest.quantity, Val(ret'.sim_price)),
                                       SlippageNum) ]_vars

\* a LIMIT BUY and then a LIMIT SELL of the same quantity were FILLED at the
\* same limit price
C14_Witness ==
    /\ Len(trade_history) = 2 /\ uuid_counter = 2
    /\ trade_history[1].status = "FILLED" /\ trade_history[1].action = "BUY"
    /\ trade_history[2].status = "FILLED" /\ trade_history[2].action = "SELL"
    /\ trade_history[1].order_type = "LIMIT" /\ trade_history[2].order_type = "LIMIT"
    /\ trade_history[1].quantity = trade_history[2].quantity
    /\ trade_history[1].price = trade_history[2].price
    /\ cash_balance["USDT"] = InitialCash["USDT"] - 2 * Val(trade_history[1].fee)

\* ---------------------------------------------------------- TradingAgent
\* the step just taken called create_order
SubmitStep == uuid_counter' # uuid_counter
\* the step just taken was one turn of the generation loop of _run_cycle
GenerationStep == pc = "generate" /\ gen_idx' = gen_idx + 1
\* the balances of the ledger a signal's order is sized on
LedgerBalances(signal) ==
    [ quote |-> cash_balance[signal.symbol.quote], base |-> asset_holdings[signal.symbol.base] ]

\* C15: within a cycle the orders are submitted one at a time in the order
\* of all_signals: every create_order call is for the first signal not yet
\* processed, with the quantity resolved from balances that are the ones of
\* the ledger at the call, that is, after every earlier create_order of the
\* cycle has completed; the signal list does not change while it is
\* processed.
C15_SequentialSubmission ==
    [][ /\ SubmitStep
            => /\ pc = "submit" /\ sig_idx < Len(all_signals)
               /\ LET signal == all_signals[sig_idx + 1]
                  IN /\ Val(available) = LedgerBalances(signal)
                     /\ ResolveQuantity(signal, LedgerBalances(signal)).outcome = "order"
                     /\ Val(ret'.request)
                          = BuildOrderRequest(signal,
                               ResolveQuantity(signal, LedgerBalances(signal)).quantity)
               /\ sig_idx' = sig_idx + 1
        /\ pc \in {"process", "submit"}
            => /\ sig_idx' \in {sig_idx, sig_idx + 1}
               /\ all_signals' = all_signals ]_vars

\* the second signal of a cycle is sized on a cash balance that the first
\* order of the cycle has lowered
C15_Witness ==
    /\ pc = "submit" /\ sig_idx = 1
    /\ IsSome(available) /\ IsSome(cycle_start)
    /\ Val(available).quote < Val(cycle_start).cash["USDT"]
    /\ Val(available).quote = cash_balance["USDT"]

\* C16: a failure while a signal is processed never takes the agent out of
\* the cycle: no exception leaves the loop of start(), and the agent is
\* never stopped with signals of the cycle left unprocessed.
C16_SignalFailureNeverAbortsCycle ==
    /\ loop_error = None
    /\ pc \notin {"loop_failed", "stopped"}

C18_FailedStrategyIsNeverCalled ==
    \A s \in StrategyNames :
        init_result[s] = "failed" => (~is_initialized[s] /\ s \notin generated)

\* C19: when the adapter's initialize failed the agent does not start: it
\* is not running, no cycle begins, generate_signals is never called and no
\* order is submitted.
C19_AdapterInitFailureStopsStart ==
    init_result["adapter"] = "failed"
      => (~is_running /\ cycle = 0 /\ generated = {} /\ uuid_counter = 0)

\* C20: the portfolio for the strategies is set at the start of the cycle
\* only; during the generation loop no order is submitted and no balance
\* changes, and all strategies called in a cycle have read the same
\* balances, the ones the cycle started with.
C20_StrategiesSeeSameBalances ==
    [][ /\ pc = "generate"
            => /\ LedgerUnchanged
               /\ UNCHANGED << uuid_counter, portfolio_for_strategies, trade_history >>
        /\ pc # "loop" => UNCHANGED portfolio_for_strategies
        /\ \A s \in StrategyNames, t \in StrategyNames :
              (IsSome(observed'[s]) /\ IsSome(observed'[t])) => observed'[s] = observed'[t]
        /\ \A s \in StrategyNames :
              IsSome(observed'[s]) => observed'[s] = cycle_start' ]_vars

\* in the second cycle, after an order of the first was FILLED, both
\* strategies have been called and have read the same, changed, balances
C20_Witness ==
    /\ cycle = 2
    /\ IsSome(observed["strategy_a"]) /\ IsSome(observed["strategy_b"])
    /\ observed["strategy_a"] = observed["strategy_b"]
    /\ Val(observed["strategy_a"]).cash # InitialCash

\* C21: the Portfolio obtained from get_account_balance at the start of a
\* cycle is a snapshot: for the rest of the cycle it shows the balances the
\* cycle started with, whatever create_order settles in between.
C21_CycleStartPortfolioIsSnapshot ==
    IsSome(cycle_start) => PortfolioRead(portfolio_for_strategies) = Val(cycle_start)

\* C24: when the order of a BUY signal of the crossover strategy, the last
\* signal of its cycle, ends REJECTED, rests OPEN or fails with an error,
\* the strategy's position flag is inactive once that order has been dealt
\* with, at the end of the cycle; after such a SELL it is active.
C24_UnfilledOrderLeavesFlagRight ==
    [][ (/\ SubmitStep
         /\ all_signals[sig_idx + 1].strategy_name = "ma_crossover"
         /\ ret'.outcome \in {"REJECTED", "OPEN", "InsufficientFundsError"}
         /\ pc' = "end_cycle")
        => /\ all_signals[sig_idx + 1].action = "BUY" => ~position_active'["ma_crossover"]
           /\ all_signals[sig_idx + 1].action = "SELL" => position_active'["ma_crossover"] ]_vars

\* C25: a create_order call that returns an ExecutedOrder, whatever its
\* status, is followed in the same step of the signal loop (before the
\* next signal is taken up) by on_order_update on the strategy named by the
\* signal and on no other; a call that raises notifies nobody, and no other
\* step of the agent notifies a strategy.
C25_OrderUpdateGoesToOriginator ==
    [][ /\ SubmitStep
           => /\ notified' = IF IsSome(ret'.order)
                             THEN { all_signals[sig_idx + 1].strategy_name } ELSE {}
              /\ notified' \subseteq { strategies[i] : i \in 1..Len(strategies) }
              /\ sig_idx' = sig_idx + 1
        /\ ~SubmitStep => notified' \subseteq notified ]_vars

\* the second of two strategies has been notified of its order, which rests
\* OPEN
C25_Witness ==
    /\ notified = {"strategy_b"}
    /\ strategies = ConfiguredStrategies
    /\ ret.op = "create_order" /\ ret.outcome = "OPEN"
    /\ all_signals[sig_idx].strategy_name = "strategy_b"

\* the step just taken was a generate_signals call of the crossover strategy
CrossoverStep ==
    /\ pc = "generate" /\ gen_idx' = gen_idx + 1
    /\ strategies[gen_idx] = "ma_crossover"

\* C30: with enough data, a generate_signals call of the crossover
\* strategy returns exactly one signal: BUY on a cross from <= to > with
\* no active position, SELL on a cross from >= to < with an active
\* position, HOLD in every other case.
C30_CrossoverYieldsOneSignal ==
    [][ (CrossoverStep /\ Val(gen_ret').has_data)
        => LET r == Val(gen_ret')
               golden == r.prev_sma_short <= r.prev_sma_long /\ r.sma_short > r.sma_long
               death == r.prev_sma_short >= r.prev_sma_long /\ r.sma_short < r.sma_long
               expected == IF golden /\ ~r.active THEN "BUY"
                           ELSE IF death /\ r.active THEN "SELL" ELSE "HOLD"
           IN /\ Len(r.signals) = 1
              /\ r.signals[1].action = expected ]_vars

\* ------------------------------------------------------ _process_signals
\* the step just taken was _process_signals taking up the next signal
TranslateStep == pc = "process" /\ (pc' # pc \/ sig_idx' # sig_idx)
\* the reference price of a BUY sized by percentage, as the specification
\* has it: the signal's price, else the adapter's get_current_price, else
\* the market data source's last price
ReferencePrice(signal) ==
    IF IsSome(signal.price) THEN signal.price
    ELSE IF IsSome(get_current_price(signal.symbol)) THEN get_current_price(signal.symbol)
    ELSE market_last[signal.symbol]
\* the quantity the specification gives a signal (None when it gives none),
\* in whole units
SizedQuantity(signal) ==
    IF signal.action = "HOLD" THEN None
    ELSE IF IsSome(signal.quantity_absolute) THEN signal.quantity_absolute
    ELSE IF ~IsSome(signal.quantity_percentage) THEN None
    ELSE IF signal.action = "SELL"
         THEN Some((asset_holdings[signal.symbol.base] * Val(signal.quantity_percentage))
                     \div PctDen)
         ELSE IF ~IsSome(ReferencePrice(signal)) THEN None
              ELSE Some((cash_balance[signal.symbol.quote] * Val(signal.quantity_percentage))
                          \div (PctDen * Times(1, Val(ReferencePrice(signal)))))

C27_QuantityResolution ==
    [][ (/\ TranslateStep
         /\ IsSome(SizedQuantity(all_signals[sig_idx + 1]))
         /\ Val(SizedQuantity(all_signals[sig_idx + 1])) > 0)
        => /\ IsSome(order_req')
           /\ Val(order_req').quantity = Val(SizedQuantity(all_signals[sig_idx + 1])) ]_vars

\* C28: a BUY sized by percentage, without a price, for which neither the
\* adapter nor the market data source has a price, is passed over: no
\* OrderRequest is built, no error leaves the loop, and the loop goes on
\* with the next signal.
C28_NoPriceSkipsSignal ==
    [][ (/\ TranslateStep
         /\ LET signal == all_signals[sig_idx + 1]
            IN /\ signal.action = "BUY"
               /\ ~IsSome(signal.quantity_absolute) /\ IsSome(signal.quantity_percentage)
               /\ ~IsSome(ReferencePrice(signal)))
        => /\ order_req' = None
           /\ loop_error' = None
           /\ sig_idx' = sig_idx + 1
           /\ pc' = AfterSignal(sig_idx + 1) ]_vars

\* C29: create_order is called only with a BUY or SELL request of positive
\* quantity, built for a signal that is not HOLD; a HOLD signal, a signal to
\* which the specification gives no quantity, and a signal whose quantity
\* resolves to nothing are passed over without an OrderRequest.
C29_OnlySizedSignalsBecomeOrders ==
    [][ /\ SubmitStep
           => /\ Val(ret'.request).action \in {"BUY", "SELL"}
              /\ Val(ret'.request).quantity > 0
              /\ all_signals[sig_idx + 1].action # "HOLD"
              /\ IsSome(all_signals[sig_idx + 1].quantity_absolute)
                   \/ IsSome(all_signals[sig_idx + 1].quantity_percentage)
        /\ (/\ TranslateStep
            /\ \/ ~IsSome(SizedQuantity(all_signals[sig_idx + 1]))
               \/ Val(SizedQuantity(all_signals[sig_idx + 1])) <= 0)
           => /\ order_req' = None
              /\ UNCHANGED uuid_counter ]_vars

\* a SELL of 100% of a holding of zero has been passed over without an
\* order
C29_Witness ==
    /\ sig_idx >= 1 /\ uuid_counter = 0 /\ loop_error = None
    /\ all_signals[1].action = "SELL"
    /\ ~IsSome(all_signals[1].quantity_absolute)
    /\ all_signals[1].quantity_percentage = Some(PctDen)
    /\ asset_holdings["BTC"] = 0

\* ------------------------------------------------------------------ stop
\* C22: once stop() has been called, at whatever moment after start()
\* began, no further cycle begins.
C22_NoCycleAfterStop ==
    [][ stop_requested => cycle' = cycle ]_vars

\* C23: a stop() call shuts the adapter down only when the shutdown of
\* every strategy has ended, well or not, and whether or not one of them
\* failed; it always gets there; and when it has returned the agent is
\* stopped, is_running being false.
C23_StopShutsEverythingDown ==
    /\ [][ (stop_pc = "strategies" /\ stop_pc' = "done")
           => /\ \A i \in 1..Len(strategies) : shutdown_result[strategies[i]] # "pending"
              /\ shutdown_result' ["adapter"] # "pending" ]_vars
    /\ [](stop_pc = "done" => ~is_running)
    /\ (stop_pc = "strategies" ~> stop_pc = "done")

\* ------------------------------------------------------- reference price
\* the reference price the adapter holds for a symbol: the entry of
\* current_sim_prices, or the last price of the market data source
HeldPrice(symbol) ==
    IF adapter = "MockExchangeAdapter" THEN current_sim_prices[symbol] ELSE market_last[symbol]

\* C39: create_order never settles an order for a symbol the adapter holds
\* no reference price for: without a known price the order is not FILLED
\* and the portfolio is unchanged.
C39_NoPriceNoSettlement ==
    [][ (CreateStep /\ ~IsSome(HeldPrice(Val(ret'.request).symbol)))
          => /\ ret'.outcome # "FILLED"
             /\ LedgerUnchanged ]_vars

\* ----------------------------------------------------------------- frame
\* C33: the balances are written by the settlement step of create_order
\* and by nothing else: cancel_order, get_order_status, get_open_orders,
\* get_account_balance, get_current_price, update_price and every other
\* step leave cash_balance and asset_holdings as they are; and create_order
\* leaves the reference prices as they are.
C33_OnlySettlementWritesBalances ==
    [][ /\ ~LedgerUnchanged => (CreateStep /\ ret'.outcome = "FILLED")
        /\ CreateStep => UNCHANGED << current_sim_prices, market_last >> ]_vars

\* with balances that a settlement has changed, an open order has been
\* cancelled, and the balances are those the settlement left
C33_Witness ==
    /\ ret.op = "cancel_order" /\ ret.outcome = "True"
    /\ Len(trade_history) = 2
    /\ trade_history[1].status = "FILLED"
    /\ cash_balance # InitialCash
    /\ cash_balance["USDT"] = InitialCash["USDT"] + CashMoved(trade_history[1], "USDT")

\* ----------------------------------------------------------------- books
\* C36: every order of the open-orders index is OPEN, every order of the
\* trade history is FILLED, CANCELED or REJECTED, and no order id is in
\* both.
C36_BooksAreDisjoint ==
    /\ \A id \in DOMAIN open_orders : open_orders[id].status = "OPEN"
    /\ \A i \in 1..Len(trade_history) :
          /\ trade_history[i].status \in {"FILLED", "CANCELED", "REJECTED"}
          /\ trade_history[i].order_id \notin DOMAIN open_orders

\* C37: an order returned OPEN stays in the open-orders index as it was
\* returned, found by get_order_status and listed by get_open_orders, until
\* cancel_order is called for its id: no create_order and no other
\* operation removes or replaces it.
C37_OpenOrderStaysUntilCancelled ==
    [][ \A id \in DOMAIN open_orders :
          ~(CancelStep /\ ret'.order_id = Some(id))
            => /\ id \in DOMAIN open_orders'
               /\ open_orders'[id] = open_orders[id]
               /\ (OrderStatus(id))' = Some(open_orders[id])
               /\ open_orders[id] \in (OpenOrders(None))' ]_vars

\* ------------------------------------------------------------- atomicity
\* the balances the settlement in hand, or just made, ends with
SettlementEnds ==
    LET request == Val(ret.request)
        cost_or_proceeds == Val(ret.settlement).cost
        commission == Val(ret.settlement).commission
    IN IF request.action = "BUY"
       THEN [cash |-> [before.cash EXCEPT ![request.symbol.quote] =
                          @ - cost_or_proceeds - commission],
             assets |-> [before.assets EXCEPT ![request.symbol.base] = @ + request.quantity]]
       ELSE [cash |-> [before.cash EXCEPT ![request.symbol.quote] =
                          @ + cost_or_proceeds - commission],
             assets |-> [before.assets EXCEPT ![request.symbol.base] = @ - request.quantity]]

\* the portfolio shows none or all of the updates of the last settlement
WholeOrNothing ==
    IF ret.op = "create_order" /\ ret.outcome \in {"settling", "FILLED"}
    THEN Ledger = before \/ Ledger = SettlementEnds
    ELSE Ledger = before

\* C34: settlement is atomic.  Wherever another operation runs or reads
\* the ledger (a get_account_balance, a stop request), the portfolio shows
\* none or all of the updates of a settlement, and a task stopped by a
\* stop request is never left with a settlement made in part.
C34_SettlementIsAtomic ==
    /\ [][ (ret'.op = "get_account_balance" \/ stop_requested' # stop_requested)
             => WholeOrNothing ]_vars
    /\ [](pc = "cancelled" => WholeOrNothing)

\* the portfolio has been read after the settlement of a BUY and one of a
\* SELL, and the stop request has come after them
C34_Witness ==
    /\ pc = "cancelled"
    /\ ret.op = "get_account_balance"
    /\ Len(trade_history) = 2
    /\ trade_history[1].status = "FILLED" /\ trade_history[1].action = "BUY"
    /\ trade_history[2].status = "FILLED" /\ trade_history[2].action = "SELL"
    /\ cash_balance # InitialCash

\* ------------------------------------------------------------- sentiment
\* C31: a generate_signals call of the sentiment strategy, with an analyzer
\* configured, returns exactly one signal for each target symbol, in their
\* order: BUY only if the average is above the buy threshold, no position
\* is active for the symbol and the quote balance is positive; SELL only if
\* the average is below the sell threshold, a position is active and the
\* base balance is positive; HOLD otherwise.
C31_OneSignalPerTargetSymbol ==
    (IsSome(gen_ret) /\ Val(gen_ret).has_analyzer /\ ~Val(gen_ret).raises)
      => LET g == Val(gen_ret)
         IN /\ Len(g.signals) = Len(TargetSymbols)
            /\ \A i \in 1..Len(TargetSymbols) :
                 LET b == TargetSymbols[i]
                     buy == /\ g.scores[b].num * 10 > 6 * g.scores[b].den
                            /\ ~g.active[b]
                            /\ g.balances.cash["USDT"] > 0
                     sell == /\ g.scores[b].num * 10 < (-4) * g.scores[b].den
                             /\ g.active[b]
                             /\ b \in DOMAIN g.balances.assets
                             /\ g.balances.assets[b] > 0
                 IN /\ g.signals[i].symbol = [base |-> b, quote |-> "USDT"]
                    /\ g.signals[i].action =
                          IF buy THEN "BUY" ELSE IF sell THEN "SELL" ELSE "HOLD"

\* a call has returned a SELL for BTC, held and in an active position, and
\* a BUY for ETH
C31_Witness ==
    /\ IsSome(gen_ret) /\ Val(gen_ret).has_analyzer /\ ~Val(gen_ret).raises
    /\ Len(Val(gen_ret).signals) = 2
    /\ Val(gen_ret).signals[1].action = "SELL"
    /\ Val(gen_ret).signals[2].action = "BUY"
    /\ asset_holdings["BTC"] > 0 /\ cash_balance["USDT"] > 0

\* the sum of sentiment_to_trading_signal over the articles
RECURSIVE SignalSum(_)
SignalSum(results) ==
    IF results = << >> THEN 0
    ELSE sentiment_to_trading_signal(Head(results)) + SignalSum(Tail(results))

\* C35: the score of a symbol is the average, over all its recent relevant
\* articles, of the value of each classification: Positive +1, Negative -1,
\* Neutral and Uncertain 0, every article counting in the denominator.
C35_ScoreIsAverageOverAllArticles ==
    (IsSome(gen_ret) /\ Val(gen_ret).has_analyzer /\ ~Val(gen_ret).raises)
      => \A b \in TargetSymbolSet :
            LET articles == Val(gen_ret).news[b]
                score == Val(gen_ret).scores[b]
            IN articles # << >>
                 => score.num * Len(articles) = SignalSum(articles) * score.den

\* ------------------------------------------------------- _load_strategies
\* a configured strategy whose construction fails
FailsToLoad(conf) ==
    \/ ~conf.importable
    \/ conf.class_name = "MovingAverageCrossoverStrategy" /\ conf.short_window >= conf.long_window

Loaded == { strategies[i] : i \in 1..Len(strategies) }

\* C32: a MovingAverageCrossoverStrategy configured with short_window >=
\* long_window is not among the agent's strategies, and is neither
\* initialized nor asked for signals; every other configured strategy that
\* can be constructed is loaded, in the configured order, and a cycle asks
\* each of them that is initialized for its signals
C32_BadCrossoverIsLeftOutOthersRun ==
    /\ \A i \in 1..Len(strategy_configs) :
          LET conf == strategy_configs[i]
          IN IF FailsToLoad(conf)
             THEN /\ conf.name \notin Loaded
                  /\ conf.name \notin generated
                  /\ ~is_initialized[conf.name]
                  /\ init_result[conf.name] = "pending"
             ELSE /\ conf.name \in Loaded
                  /\ (pc = "end_cycle" /\ is_initialized[conf.name])
                        => conf.name \in generated
    /\ \A i, j \in 1..Len(strategies) :
          i < j => \E k, l \in 1..Len(strategy_configs) :
                      /\ k < l
                      /\ strategy_configs[k].name = strategies[i]
                      /\ strategy_configs[l].name = strategies[j]

\* a crossover with equal windows configured first was left out, and the two
\* strategies configured after it have generated in a cycle
C32_Witness ==
    /\ strategy_configs # << >>
    /\ strategy_configs[1].class_name = "MovingAverageCrossoverStrategy"
    /\ strategy_configs[1].short_window >= strategy_configs[1].long_window
    /\ strategies = << "strategy_a", "strategy_b" >>
    /\ pc = "end_cycle"
    /\ generated = {"strategy_a", "strategy_b"}

\* -------------------------------------------------------------- executor
\* C38: in a run of the executor, shutdown is invoked at most once on each
\* strategy and on the adapter, exactly once on each when the run is over,
\* and no adapter operation is invoked after the adapter's shutdown
C38_ShutdownOnceAndLast ==
    /\ \A c \in Loaded \cup {"adapter"} : shutdown_calls[c] <= 1
    /\ pc = "exited" => \A c \in Loaded \cup {"adapter"} : shutdown_calls[c] = 1
    /\ late_calls = 0

====
